---- MODULE Spec2Model ----
(***************************************************************************)
(* Conversational contract state machine: LLMClient.get_chat_response, its *)
(* contract operations, the per-session contract memory and the date       *)
(* validator that gates contract mutations.                                *)
(*                                                                         *)
(* A Python str is a sequence of chunks; a chunk is a named run of          *)
(* characters whose measured properties (length, letters, Arabic letters,  *)
(* warning-marker prefix, position of the Arabic "error" word, embedded     *)
(* date literals) are listed in ChunkTable.  Two texts are the same string *)
(* exactly when they are the same sequence of chunks.                      *)
(* Optional[str] is a sequence of zero or one texts.                       *)
(***************************************************************************)
EXTENDS Integers, Sequences, FiniteSets, TLC

None == <<>>
Some(t) == <<t>>
IsNone(o) == o = <<>>
Val(o) == o[1]

(***************************************************************************)
(* Chunks                                                                  *)
(***************************************************************************)
\* a run of characters without date literals
L(len, alpha, arabic, warn, errAt) ==
    [len |-> len, alpha |-> alpha, arabic |-> arabic, ws |-> FALSE,
     warn |-> warn, errAt |-> errAt, dates |-> <<>>, ranges |-> <<>>]

\* a numeric date literal as it is written in a text: three runs of digits
\* (their values n1..n3 and their numbers of digits w1..w3) around one separator
NumLit(text, sep, a, wa, b, wb, c, wc) ==
    [text |-> text, sep |-> sep, n1 |-> a, n2 |-> b, n3 |-> c,
     w1 |-> wa, w2 |-> wb, w3 |-> wc, name |-> ""]

\* a literal written with two digits for day and month and four for the year
DateLit(text, fmt, sep, a, b, c) ==
    IF fmt = "dmy" THEN NumLit(text, sep, a, 2, b, 2, c, 4)
    ELSE NumLit(text, sep, a, 4, b, 2, c, 2)

D_01_01_2031 == DateLit("01/01/2031", "dmy", "/", 1, 1, 2031)
D_01_06_2031 == DateLit("01/06/2031", "dmy", "/", 1, 6, 2031)
D_30_02_2031 == DateLit("30/02/2031", "dmy", "/", 30, 2, 2031)
D_01_01_2150 == DateLit("01/01/2150", "dmy", "/", 1, 1, 2150)
D_01_01_2020 == DateLit("01/01/2020", "dmy", "/", 1, 1, 2020)

\* a chunk that is one date literal
DateChunk(lit) ==
    [len |-> 10, alpha |-> 0, arabic |-> 0, ws |-> FALSE, warn |-> FALSE,
     errAt |-> -1, dates |-> <<lit>>, ranges |-> <<>>]

\* a chunk "from <start> to <end>": its two dates match the first date pattern,
\* and the phrase matches two of the range patterns, 'from\s+..' and
\* 'From[:\s]+..', both searched ignoring case
RangeChunk(s, e) ==
    [len |-> 29, alpha |-> 6, arabic |-> 0, ws |-> FALSE, warn |-> FALSE,
     errAt |-> -1, dates |-> <<s, e>>, ranges |-> << <<s, e>>, <<s, e>> >>]

\* The keys of ARABIC_MONTHS, named by their transliteration, with their month
\* number and what the patterns read of their spelling: the number of
\* characters (len), of words, of characters outside the class [U+0623-U+064A]
\* of the Arabic date patterns (outside), and of characters of the block
\* U+0600..U+06FF (block).
ARABIC_MONTHS ==
       ("yanayir" :> [month |-> 1, len |-> 5, words |-> 1, outside |-> 0, block |-> 5])
    @@ ("yanayir (final letter U+05E8)" :> [month |-> 1, len |-> 5, words |-> 1, outside |-> 1, block |-> 4])
    @@ ("fibrayir" :> [month |-> 2, len |-> 6, words |-> 1, outside |-> 0, block |-> 6])
    @@ ("shubat" :> [month |-> 2, len |-> 4, words |-> 1, outside |-> 0, block |-> 4])
    @@ ("maris" :> [month |-> 3, len |-> 4, words |-> 1, outside |-> 0, block |-> 4])
    @@ ("adhar (U+0622 first)" :> [month |-> 3, len |-> 4, words |-> 1, outside |-> 1, block |-> 4])
    @@ ("abril (U+0623 first)" :> [month |-> 4, len |-> 5, words |-> 1, outside |-> 0, block |-> 5])
    @@ ("nisan" :> [month |-> 4, len |-> 5, words |-> 1, outside |-> 0, block |-> 5])
    @@ ("abril (U+0627 first)" :> [month |-> 4, len |-> 5, words |-> 1, outside |-> 0, block |-> 5])
    @@ ("mayu" :> [month |-> 5, len |-> 4, words |-> 1, outside |-> 0, block |-> 4])
    @@ ("ayyar" :> [month |-> 5, len |-> 4, words |-> 1, outside |-> 0, block |-> 4])
    @@ ("may" :> [month |-> 5, len |-> 3, words |-> 1, outside |-> 0, block |-> 3])
    @@ ("yunyu" :> [month |-> 6, len |-> 5, words |-> 1, outside |-> 0, block |-> 5])
    @@ ("haziran" :> [month |-> 6, len |-> 6, words |-> 1, outside |-> 0, block |-> 6])
    @@ ("yunyah" :> [month |-> 6, len |-> 5, words |-> 1, outside |-> 0, block |-> 5])
    @@ ("yulyu" :> [month |-> 7, len |-> 5, words |-> 1, outside |-> 0, block |-> 5])
    @@ ("tammuz" :> [month |-> 7, len |-> 4, words |-> 1, outside |-> 0, block |-> 4])
    @@ ("yulyah" :> [month |-> 7, len |-> 5, words |-> 1, outside |-> 0, block |-> 5])
    @@ ("aghustus (U+0623 first)" :> [month |-> 8, len |-> 5, words |-> 1, outside |-> 0, block |-> 5])
    @@ ("ab (U+0622 first)" :> [month |-> 8, len |-> 2, words |-> 1, outside |-> 1, block |-> 2])
    @@ ("aghustus (U+0627 first)" :> [month |-> 8, len |-> 5, words |-> 1, outside |-> 0, block |-> 5])
    @@ ("sibtambir" :> [month |-> 9, len |-> 6, words |-> 1, outside |-> 0, block |-> 6])
    @@ ("aylul" :> [month |-> 9, len |-> 5, words |-> 1, outside |-> 0, block |-> 5])
    @@ ("uktubar (U+0623 first)" :> [month |-> 10, len |-> 6, words |-> 1, outside |-> 0, block |-> 6])
    @@ ("tishrin al-awwal" :> [month |-> 10, len |-> 11, words |-> 2, outside |-> 0, block |-> 10])
    @@ ("uktubar (U+0627 first)" :> [month |-> 10, len |-> 6, words |-> 1, outside |-> 0, block |-> 6])
    @@ ("nufambir" :> [month |-> 11, len |-> 6, words |-> 1, outside |-> 0, block |-> 6])
    @@ ("tishrin al-thani" :> [month |-> 11, len |-> 12, words |-> 2, outside |-> 0, block |-> 11])
    @@ ("disambir" :> [month |-> 12, len |-> 6, words |-> 1, outside |-> 0, block |-> 6])
    @@ ("kanun al-awwal" :> [month |-> 12, len |-> 11, words |-> 2, outside |-> 0, block |-> 10])
    @@ ("dasambir" :> [month |-> 12, len |-> 5, words |-> 1, outside |-> 0, block |-> 5])

\* a literal "<day> <month name> <year>": the day on wday digits, a 4-digit year
ArabicLit(text, day, wday, name, year) ==
    [text |-> text, sep |-> " ", n1 |-> day, n2 |-> 0, n3 |-> year,
     w1 |-> wday, w2 |-> 0, w3 |-> 4, name |-> name]

\* (\d{1,2})\s+([U+0623-U+064A]+)\s+(\d{4}) matches the literal: the name must be
\* one run of characters of the class, followed by whitespace and the year
ArabicPatternMatches(name, months) ==
    months[name].words = 1 /\ months[name].outside = 0

\* a chunk that is one Arabic date literal; the third date pattern finds it
\* when it matches
ArabicDateChunk(lit, months) ==
    [len |-> lit.w1 + 1 + months[lit.name].len + 1 + 4,
     alpha |-> months[lit.name].len - (months[lit.name].words - 1),
     arabic |-> months[lit.name].block, ws |-> FALSE, warn |-> FALSE, errAt |-> -1,
     dates |-> IF ArabicPatternMatches(lit.name, months) THEN <<lit>> ELSE <<>>,
     ranges |-> <<>>]

\* the chunks "23 <month name> 2031", one for every key of the table
ArabicChunks(months) ==
    [c \in { "23 " \o name \o " 2031" : name \in DOMAIN months } |->
        ArabicDateChunk(ArabicLit(c, 23, 2,
                                  CHOOSE name \in DOMAIN months : c = "23 " \o name \o " 2031",
                                  2031),
                        months)]

ChunkTable ==
    \* whitespace
       (" " :> [len |-> 1, alpha |-> 0, arabic |-> 0, ws |-> TRUE, warn |-> FALSE,
                errAt |-> -1, dates |-> <<>>, ranges |-> <<>>])
    \* single characters: a Latin letter, an Arabic letter (alef, U+0627), and
    \* two characters of the block U+0600..U+06FF that are not letters (the
    \* digit U+0661 and the Arabic comma U+060C)
    @@ ("a" :> L(1, 1, 0, FALSE, -1))
    @@ ("ALEF" :> L(1, 1, 1, FALSE, -1))
    @@ ("ARABIC_INDIC_1" :> L(1, 0, 1, FALSE, -1))
    @@ ("ARABIC_COMMA" :> L(1, 0, 1, FALSE, -1))
    \* texts of users and of the completion backend
    @@ ("edit the rent clause" :> L(20, 17, 0, FALSE, -1))
    @@ ("start on " :> L(9, 7, 0, FALSE, -1))
    @@ ("AR_REQUEST" :> L(15, 13, 13, FALSE, -1))
    @@ ("LEASE_A" :> L(200, 160, 0, FALSE, -1))
    @@ ("LEASE_B" :> L(240, 190, 0, FALSE, -1))
    @@ ("LEASE_199" :> L(199, 160, 0, FALSE, -1))
    @@ ("LEASE_AR" :> L(220, 180, 180, FALSE, 30))
    @@ ("WARN" :> L(2, 0, 0, TRUE, -1))
    @@ ("01/01/2031" :> DateChunk(D_01_01_2031))
    @@ ("01/06/2031" :> DateChunk(D_01_06_2031))
    @@ ("30/02/2031" :> DateChunk(D_30_02_2031))
    @@ ("01/01/2150" :> DateChunk(D_01_01_2150))
    @@ ("01/01/2020" :> DateChunk(D_01_01_2020))
    @@ ("from 01/01/2031 to 01/06/2031" :> RangeChunk(D_01_01_2031, D_01_06_2031))
    @@ ("from 01/06/2031 to 01/01/2031" :> RangeChunk(D_01_06_2031, D_01_01_2031))
    @@ ("from 01/01/2020 to 01/01/2031" :> RangeChunk(D_01_01_2020, D_01_01_2031))
    \* one date of every Arabic month name
    @@ ArabicChunks(ARABIC_MONTHS)
    \* llm_client.py literals
    @@ ("ALERT_AR_PRE" :> L(20, 12, 12, TRUE, 3))
    @@ ("ALERT_AR_POST" :> L(42, 34, 34, FALSE, -1))
    @@ ("ALERT_EN_PRE" :> L(27, 19, 0, TRUE, -1))
    @@ ("ALERT_EN_POST" :> L(40, 31, 0, FALSE, -1))
    @@ ("GEN_FAIL_AR" :> L(30, 22, 24, FALSE, 11))
    @@ ("GEN_FAIL_EN" :> L(33, 28, 0, FALSE, -1))
    @@ ("GEN_BAD_AR_PRE" :> L(46, 33, 34, TRUE, -1))
    @@ ("GEN_BAD_AR_POST" :> L(27, 21, 21, FALSE, -1))
    @@ ("GEN_BAD_EN_PRE" :> L(47, 37, 0, TRUE, -1))
    @@ ("GEN_BAD_EN_POST" :> L(19, 14, 0, FALSE, -1))
    @@ ("EDIT_FAIL_AR" :> L(26, 19, 21, FALSE, 11))
    @@ ("EDIT_FAIL_EN" :> L(25, 20, 0, FALSE, -1))
    @@ ("EDIT_BAD_AR_PRE" :> L(35, 25, 25, TRUE, -1))
    @@ ("EDIT_BAD_AR_POST" :> L(21, 16, 16, FALSE, -1))
    @@ ("EDIT_BAD_EN_PRE" :> L(33, 24, 0, TRUE, -1))
    @@ ("EDIT_BAD_EN_POST" :> L(30, 25, 0, FALSE, -1))
    @@ ("REVIEW_FAIL_AR" :> L(27, 20, 22, FALSE, 11))
    @@ ("REVIEW_FAIL_EN" :> L(27, 22, 0, FALSE, -1))
    @@ ("EXPLAIN_FAIL_AR" :> L(22, 16, 18, FALSE, -1))
    @@ ("EXPLAIN_FAIL_EN" :> L(24, 19, 0, FALSE, -1))
    @@ ("CREATED_AR" :> L(22, 17, 17, FALSE, -1))
    @@ ("CREATED_EN" :> L(31, 27, 0, FALSE, -1))
    @@ ("CREATE_ERR_AR" :> L(18, 15, 15, FALSE, 0))
    @@ ("CREATE_ERR_EN" :> L(23, 21, 0, FALSE, -1))
    @@ ("NEED_EDIT_AR" :> L(58, 46, 46, FALSE, -1))
    @@ ("NEED_EDIT_EN" :> L(82, 64, 0, FALSE, -1))
    @@ ("UPDATED_AR" :> L(18, 14, 14, FALSE, -1))
    @@ ("UPDATED_EN" :> L(22, 19, 0, FALSE, -1))
    @@ ("NOT_UPDATED_AR" :> L(42, 33, 34, FALSE, -1))
    @@ ("NOT_UPDATED_EN" :> L(33, 26, 0, FALSE, -1))
    @@ ("NEED_EXPLAIN_AR" :> L(52, 41, 41, FALSE, -1))
    @@ ("NEED_EXPLAIN_EN" :> L(75, 58, 0, FALSE, -1))
    @@ ("NEED_REVIEW_AR" :> L(53, 42, 42, FALSE, -1))
    @@ ("NEED_REVIEW_EN" :> L(74, 57, 0, FALSE, -1))
    @@ ("CHAT_FAIL_AR" :> L(26, 20, 22, FALSE, 7))
    @@ ("CHAT_FAIL_EN" :> L(31, 27, 0, FALSE, -1))
    @@ ("CHAT_REPLY" :> L(60, 48, 0, FALSE, -1))
    \* date_validator.py literals
    @@ ("Invalid date '" :> L(14, 11, 0, FALSE, -1))
    @@ ("': " :> L(3, 0, 0, FALSE, -1))
    @@ ("; " :> L(2, 0, 0, FALSE, -1))
    @@ ("Invalid date format: " :> L(21, 17, 0, FALSE, -1))
    @@ ("Invalid date: " :> L(14, 11, 0, FALSE, -1))
    @@ (" (this date does not exist in the calendar)" :> L(43, 33, 0, FALSE, -1))
    @@ ("Year out of reasonable range: " :> L(30, 24, 0, FALSE, -1))
    @@ ("Start date error: " :> L(18, 14, 0, FALSE, -1))
    @@ ("End date error: " :> L(16, 12, 0, FALSE, -1))
    @@ ("Start date " :> L(11, 9, 0, FALSE, -1))
    @@ (" is in the past. Lease contracts should start on or after today (" :> L(65, 50, 0, FALSE, -1))
    @@ (")" :> L(1, 0, 0, FALSE, -1))
    @@ ("End date " :> L(9, 7, 0, FALSE, -1))
    @@ (" must be after start date " :> L(26, 20, 0, FALSE, -1))
    @@ (". The lease period goes backward in time." :> L(41, 32, 0, FALSE, -1))
    @@ ("Lease duration too short: " :> L(26, 21, 0, FALSE, -1))
    @@ (" days. Minimum duration is " :> L(27, 21, 0, FALSE, -1))
    @@ (" days." :> L(6, 4, 0, FALSE, -1))
    @@ ("Lease duration too long: " :> L(25, 20, 0, FALSE, -1))
    @@ (" days (" :> L(7, 4, 0, FALSE, -1))
    @@ (" years). Maximum duration is " :> L(29, 22, 0, FALSE, -1))
    @@ (" years." :> L(7, 5, 0, FALSE, -1))

\* a chunk outside the table is a rendered number or date: digits and separators
Info(c) ==
    IF c \in DOMAIN ChunkTable THEN ChunkTable[c]
    ELSE [len |-> Len(c), alpha |-> 0, arabic |-> 0, ws |-> FALSE, warn |-> FALSE,
          errAt |-> -1, dates |-> <<>>, ranges |-> <<>>]

(***************************************************************************)
(* str operations                                                          *)
(***************************************************************************)
RECURSIVE SumOver(_, _)
SumOver(t, field) ==
    IF t = <<>> THEN 0 ELSE Info(Head(t))[field] + SumOver(Tail(t), field)

StrLen(t) == SumOver(t, "len")

RECURSIVE LStrip(_)
LStrip(t) == IF t # <<>> /\ Info(Head(t)).ws THEN LStrip(Tail(t)) ELSE t

RECURSIVE RStrip(_)
RStrip(t) ==
    IF t # <<>> /\ Info(t[Len(t)]).ws THEN RStrip(SubSeq(t, 1, Len(t) - 1)) ELSE t

\* str.strip()
Strip(t) == RStrip(LStrip(t))

\* truth value of a str
Truthy(t) == t # <<>>

\* truth value of an Optional[str]
TruthyOpt(o) == ~IsNone(o) /\ Truthy(Val(o))

\* s.startswith(<warning sign>)
StartsWithWarn(t) == t # <<>> /\ Info(t[1]).warn

\* <Arabic word for error> in s[:n]
ErrWordWithin(t, n) ==
    \E i \in 1..Len(t) :
        /\ Info(t[i]).errAt >= 0
        /\ StrLen(SubSeq(t, 1, i - 1)) + Info(t[i]).errAt + 3 <= n

RECURSIVE FlatField(_, _)
FlatField(t, field) ==
    IF t = <<>> THEN <<>> ELSE Info(Head(t))[field] \o FlatField(Tail(t), field)

RECURSIVE JoinTexts(_, _)
JoinTexts(parts, sep) ==
    IF parts = <<>> THEN <<>>
    ELSE IF Len(parts) = 1 THEN parts[1]
    ELSE parts[1] \o <<sep>> \o JoinTexts(Tail(parts), sep)

(***************************************************************************)
(* DateValidator                                                           *)
(***************************************************************************)
\* is_leap_year of the Julian calendar: every fourth year
is_leap_year_EveryFourthYear(year) == year % 4 = 0

\* calendar.isleap
is_leap_year(year) == year % 4 = 0 /\ (year % 100 # 0 \/ year % 400 = 0)

\* calendar.monthrange(year, month)[1]
DaysInMonth(year, month) ==
    IF month = 2 THEN (IF is_leap_year(year) THEN 29 ELSE 28)
    ELSE IF month \in {4, 6, 9, 11} THEN 30 ELSE 31

\* datetime(year, month, day) does not raise ValueError
DatetimeExists(year, month, day) ==
    /\ 1 <= year /\ year <= 9999
    /\ 1 <= month /\ month <= 12
    /\ 1 <= day /\ day <= DaysInMonth(year, month)

is_valid_date(day, month, year) ==
    IF ~(1 <= month /\ month <= 12) THEN FALSE
    ELSE IF ~(1 <= year /\ year <= 9999) THEN FALSE
    ELSE IF ~(1 <= day /\ day <= DaysInMonth(year, month)) THEN FALSE
    ELSE DatetimeExists(year, month, day)

\* DATE_FORMATS; "%-d/%-m/%Y" and "%#d/%#m/%Y" hold a bad directive, for
\* which strptime raises ValueError on every input
DATE_FORMATS ==
    << <<"dmy", "/">>, <<"dmy", "-">>, <<"ymd", "/">>, <<"ymd", "-">>, <<"dmy", ".">>,
       <<"bad", "/">>, <<"bad", "/">> >>

\* the numbers of a literal read day first or year first
ReadAs(lit, layout) ==
    IF layout = "dmy" THEN [y |-> lit.n3, m |-> lit.n2, d |-> lit.n1]
    ELSE [y |-> lit.n1, m |-> lit.n2, d |-> lit.n3]

\* the regular expression strptime makes of a format matches the whole literal:
\* %d is 1 or 2 digits of value 1..31, %m 1 or 2 digits of value 1..12, %Y 4 digits
StrptimeFits(lit, f) ==
    /\ f[1] \in {"dmy", "ymd"}
    /\ lit.sep = f[2]
    /\ lit.w2 \in {1, 2} /\ 1 <= lit.n2 /\ lit.n2 <= 12
    /\ IF f[1] = "dmy"
       THEN lit.w1 \in {1, 2} /\ 1 <= lit.n1 /\ lit.n1 <= 31 /\ lit.w3 = 4
       ELSE lit.w3 \in {1, 2} /\ 1 <= lit.n3 /\ lit.n3 <= 31 /\ lit.w1 = 4

\* datetime.strptime(date_str, fmt), None standing for ValueError
Strptime(lit, f, dt) ==
    IF StrptimeFits(lit, f) /\ DatetimeExists(dt.y, dt.m, dt.d) THEN Some(dt) ELSE None

\* "Try standard formats": the first format from the i-th on that parses
RECURSIVE TryFormats(_, _)
TryFormats(lit, i) ==
    IF i > Len(DATE_FORMATS) THEN None
    ELSE IF ~IsNone(Strptime(lit, DATE_FORMATS[i], ReadAs(lit, DATE_FORMATS[i][1])))
    THEN Strptime(lit, DATE_FORMATS[i], ReadAs(lit, DATE_FORMATS[i][1]))
    ELSE TryFormats(lit, i + 1)

\* LitDate that reads every literal day first
LitDate_AlwaysDayFirst(lit) == Some(ReadAs(lit, "dmy"))

\* "Manual parsing": the part that is 4 digits long is the year
LitDate(lit) ==
    IF lit.w3 = 4 THEN Some(ReadAs(lit, "dmy"))
    ELSE IF lit.w1 = 4 THEN Some(ReadAs(lit, "ymd"))
    ELSE None

ManualParse(dt) ==
    IF IsNone(dt) THEN None
    ELSE IF DatetimeExists(Val(dt).y, Val(dt).m, Val(dt).d) THEN dt
    ELSE None

ParseOf(lit, standard) ==
    IF ~IsNone(standard) THEN standard
    ELSE IF lit.sep \notin {"/", "-", "."} THEN None
    ELSE ManualParse(LitDate(lit))

\* "Try Arabic month name format": the pattern, the table, then datetime()
ArabicParse(lit, months) ==
    IF lit.name = "" THEN None
    ELSE IF ~ArabicPatternMatches(lit.name, months) THEN None
    ELSE IF DatetimeExists(lit.n3, months[lit.name].month, lit.n1)
    THEN Some([y |-> lit.n3, m |-> months[lit.name].month, d |-> lit.n1])
    ELSE None

ParseFrom(lit, arabic) ==
    IF ~IsNone(arabic) THEN arabic ELSE ParseOf(lit, TryFormats(lit, 1))

parse_date(lit) == ParseFrom(lit, ArabicParse(lit, ARABIC_MONTHS))

ValidateParsed(lit, parsed) ==
    IF IsNone(parsed)
    THEN [valid |-> FALSE, error |-> <<"Invalid date format: ", lit.text>>, parsed |-> None]
    ELSE IF ~is_valid_date(Val(parsed).d, Val(parsed).m, Val(parsed).y)
    THEN [valid |-> FALSE,
          error |-> <<"Invalid date: ", lit.text, " (this date does not exist in the calendar)">>,
          parsed |-> None]
    ELSE IF ~(1900 <= Val(parsed).y /\ Val(parsed).y <= 2100)
    THEN [valid |-> FALSE,
          error |-> <<"Year out of reasonable range: ", ToString(Val(parsed).y)>>,
          parsed |-> None]
    ELSE [valid |-> TRUE, error |-> <<>>, parsed |-> parsed]

validate_date(lit) == ValidateParsed(lit, parse_date(lit))

\* date.toordinal(): days since 0001-01-01, that day being 1
RECURSIVE DaysBeforeMonth(_, _)
DaysBeforeMonth(year, month) ==
    IF month = 1 THEN 0
    ELSE DaysBeforeMonth(year, month - 1) + DaysInMonth(year, month - 1)

ToOrdinal(dt) ==
    (dt.y - 1) * 365 + ((dt.y - 1) \div 4) - ((dt.y - 1) \div 100) + ((dt.y - 1) \div 400)
    + DaysBeforeMonth(dt.y, dt.m) + dt.d

Pad2(n) == IF n < 10 THEN "0" \o ToString(n) ELSE ToString(n)

\* strftime('%d/%m/%Y')
StrfDMY(dt) == Pad2(dt.d) \o "/" \o Pad2(dt.m) \o "/" \o ToString(dt.y)

\* RangeChecks without the check that the end follows the start
RangeChecks_NoOrderCheck(ref, start, end, allow_past_start, min_days, max_days, s, e, today) ==
    IF ~allow_past_start /\ (s < today \/ (s = today /\ 0 < ref.secs))
    THEN [valid |-> FALSE,
          error |-> <<"Start date ", start.text,
                      " is in the past. Lease contracts should start on or after today (",
                      StrfDMY(ref), ")">>]
    ELSE IF e - s < min_days
    THEN [valid |-> FALSE,
          error |-> <<"Lease duration too short: ", ToString(e - s),
                      " days. Minimum duration is ", ToString(min_days), " days.">>]
    ELSE IF e - s > max_days
    THEN [valid |-> FALSE,
          error |-> <<"Lease duration too long: ", ToString(e - s), " days (",
                      ToString((e - s) \div 365), " years). Maximum duration is ",
                      ToString(max_days \div 365), " years.">>]
    ELSE [valid |-> TRUE, error |-> <<>>]

\* RangeChecks that takes a start on the reference day for a start in the past
RangeChecks_RejectsToday(ref, start, end, allow_past_start, min_days, max_days, s, e, today) ==
    IF ~allow_past_start /\ s <= today
    THEN [valid |-> FALSE,
          error |-> <<"Start date ", start.text,
                      " is in the past. Lease contracts should start on or after today (",
                      StrfDMY(ref), ")">>]
    ELSE IF e <= s
    THEN [valid |-> FALSE,
          error |-> <<"End date ", end.text, " must be after start date ", start.text,
                      ". The lease period goes backward in time.">>]
    ELSE IF e - s < min_days
    THEN [valid |-> FALSE,
          error |-> <<"Lease duration too short: ", ToString(e - s),
                      " days. Minimum duration is ", ToString(min_days), " days.">>]
    ELSE IF e - s > max_days
    THEN [valid |-> FALSE,
          error |-> <<"Lease duration too long: ", ToString(e - s), " days (",
                      ToString((e - s) \div 365), " years). Maximum duration is ",
                      ToString(max_days \div 365), " years.">>]
    ELSE [valid |-> TRUE, error |-> <<>>]

\* RangeChecks that checks the minimum duration before the order of the dates
RangeChecks_DurationFirst(ref, start, end, allow_past_start, min_days, max_days, s, e, today) ==
    IF ~allow_past_start /\ (s < today \/ (s = today /\ 0 < ref.secs))
    THEN [valid |-> FALSE,
          error |-> <<"Start date ", start.text,
                      " is in the past. Lease contracts should start on or after today (",
                      StrfDMY(ref), ")">>]
    ELSE IF e - s < min_days
    THEN [valid |-> FALSE,
          error |-> <<"Lease duration too short: ", ToString(e - s),
                      " days. Minimum duration is ", ToString(min_days), " days.">>]
    ELSE IF e <= s
    THEN [valid |-> FALSE,
          error |-> <<"End date ", end.text, " must be after start date ", start.text,
                      ". The lease period goes backward in time.">>]
    ELSE IF e - s > max_days
    THEN [valid |-> FALSE,
          error |-> <<"Lease duration too long: ", ToString(e - s), " days (",
                      ToString((e - s) \div 365), " years). Maximum duration is ",
                      ToString(max_days \div 365), " years.">>]
    ELSE [valid |-> TRUE, error |-> <<>>]

\* the checks of validate_date_range on two valid dates, given as ordinals;
\* the reference date carries a time of day, a parsed date is a midnight
RangeChecks(ref, start, end, allow_past_start, min_days, max_days, s, e, today) ==
    IF ~allow_past_start /\ (s < today \/ (s = today /\ 0 < ref.secs))
    THEN [valid |-> FALSE,
          error |-> <<"Start date ", start.text,
                      " is in the past. Lease contracts should start on or after today (",
                      StrfDMY(ref), ")">>]
    ELSE IF e <= s
    THEN [valid |-> FALSE,
          error |-> <<"End date ", end.text, " must be after start date ", start.text,
                      ". The lease period goes backward in time.">>]
    ELSE IF e - s < min_days
    THEN [valid |-> FALSE,
          error |-> <<"Lease duration too short: ", ToString(e - s),
                      " days. Minimum duration is ", ToString(min_days), " days.">>]
    ELSE IF e - s > max_days
    THEN [valid |-> FALSE,
          error |-> <<"Lease duration too long: ", ToString(e - s), " days (",
                      ToString((e - s) \div 365), " years). Maximum duration is ",
                      ToString(max_days \div 365), " years.">>]
    ELSE [valid |-> TRUE, error |-> <<>>]

RangeOf(ref, start, end, allow_past_start, min_duration_days, max_duration_days, sv, ev) ==
    IF ~sv.valid THEN [valid |-> FALSE, error |-> <<"Start date error: ">> \o sv.error]
    ELSE IF ~ev.valid THEN [valid |-> FALSE, error |-> <<"End date error: ">> \o ev.error]
    ELSE RangeChecks(ref, start, end, allow_past_start, min_duration_days, max_duration_days,
                     ToOrdinal(Val(sv.parsed)), ToOrdinal(Val(ev.parsed)), ToOrdinal(ref))

validate_date_range(ref, start, end, allow_past_start, min_duration_days, max_duration_days) ==
    RangeOf(ref, start, end, allow_past_start, min_duration_days, max_duration_days,
            validate_date(start), validate_date(end))

Finding(lit, v) ==
    [text |-> lit.text, parsed |-> v.parsed, valid |-> v.valid, error |-> v.error]

\* the list of findings of the three date patterns
RECURSIVE FoundDates(_)
FoundDates(lits) ==
    IF lits = <<>> THEN <<>>
    ELSE <<Finding(Head(lits), validate_date(Head(lits)))>> \o FoundDates(Tail(lits))

RECURSIVE DateErrors(_)
DateErrors(found) ==
    IF found = <<>> THEN <<>>
    ELSE (IF Head(found).valid THEN <<>>
          ELSE << <<"Invalid date '", Head(found).text, "': ">> \o Head(found).error >>)
         \o DateErrors(Tail(found))

RangeError(r) == IF r.valid THEN <<>> ELSE <<r.error>>

RECURSIVE RangeErrors(_, _, _)
RangeErrors(ref, ranges, allow_past_start) ==
    IF ranges = <<>> THEN <<>>
    ELSE RangeError(validate_date_range(ref, Head(ranges)[1], Head(ranges)[2],
                                        allow_past_start, 1, 36500))
         \o RangeErrors(ref, Tail(ranges), allow_past_start)

ScanRanges(found, rerrors) ==
    IF rerrors # <<>>
    THEN [valid |-> FALSE, error |-> JoinTexts(rerrors, "; "), found |-> found]
    ELSE [valid |-> TRUE, error |-> <<>>, found |-> found]

ScanDates(ref, text, allow_past_start, found, errors) ==
    IF errors # <<>>
    THEN [valid |-> FALSE, error |-> JoinTexts(errors, "; "), found |-> found]
    ELSE ScanRanges(found, RangeErrors(ref, FlatField(text, "ranges"), allow_past_start))

ScanFound(ref, text, allow_past_start, found) ==
    ScanDates(ref, text, allow_past_start, found, DateErrors(found))

extract_and_validate_dates(ref, text, allow_past_start) ==
    ScanFound(ref, text, allow_past_start, FoundDates(FlatField(text, "dates")))

\* the leap year found by the search from next_leap on, stopping at limit
RECURSIVE NextLeap(_, _)
NextLeap(next_leap, limit) ==
    IF ~is_leap_year(next_leap) /\ next_leap < limit THEN NextLeap(next_leap + 1, limit)
    ELSE next_leap

\* "Check for Feb 29 in non-leap year"
Feb29Suggestions(dt, next_leap) ==
    IF dt.m = 2 /\ dt.d = 29 /\ ~is_leap_year(dt.y)
    THEN << <<"February 29 does not exist in ", ToString(dt.y), " (not a leap year)">>,
            <<"Try: 28/02/", ToString(dt.y), " or 01/03/", ToString(dt.y)>> >>
         \o (IF next_leap < dt.y + 10
             THEN << <<"Or use a leap year: 29/02/", ToString(next_leap)>> >>
             ELSE <<>>)
    ELSE <<>>

\* "Check for invalid day of month"
MaxDaySuggestions(dt, max_day) ==
    IF dt.d > max_day
    THEN << <<"Day ", ToString(dt.d), " is invalid for month ", ToString(dt.m), "/",
              ToString(dt.y), ". Maximum day is ", ToString(max_day)>>,
            <<"Try: ", ToString(max_day), "/", Pad2(dt.m), "/", ToString(dt.y)>> >>
    ELSE <<>>

\* "Check if date is too far in past": parsed < reference_date - timedelta(days=365)
PastSuggestions(ref, dt) ==
    IF \/ ToOrdinal(dt) < ToOrdinal(ref) - 365
       \/ (ToOrdinal(dt) = ToOrdinal(ref) - 365 /\ 0 < ref.secs)
    THEN << <<"Date is in the past (", StrfDMY(dt),
              "). Consider using a current or future date.">> >>
    ELSE <<>>

SuggestionsOf(ref, parsed) ==
    IF IsNone(parsed) THEN << <<"Use format DD/MM/YYYY (e.g., 23/02/2026)">> >>
    ELSE Feb29Suggestions(Val(parsed), NextLeap(Val(parsed).y + 1, Val(parsed).y + 10))
         \o MaxDaySuggestions(Val(parsed), DaysInMonth(Val(parsed).y, Val(parsed).m))
         \o PastSuggestions(ref, Val(parsed))

get_validation_suggestions(ref, lit) == SuggestionsOf(ref, parse_date(lit))

(***************************************************************************)
(* LLMClient                                                               *)
(***************************************************************************)
MIN_CONTRACT_LENGTH == 200

Sessions == {"default"}

VARIABLES
    contract_memory,   \* LLMClient._contract_memory: session id -> Optional[str]
    reference_date,    \* DateValidator.reference_date
    last,              \* the last request handled and the tuple it returned
    call,              \* one call of a function: its arguments and what it returned
    threads,           \* the get_chat_response calls in flight, one per server thread
    flask_session      \* the Flask session of one browser and the chat ids issued

vars == <<contract_memory, reference_date, last, call, threads, flask_session>>

\* set_current_contract that keeps one slot for all the sessions
set_current_contract_SharedSlot(mem, contract, session_id) ==
    [s \in DOMAIN mem |-> Some(contract)]

set_current_contract(mem, contract, session_id) ==
    [mem EXCEPT ![session_id] = Some(contract)]

get_current_contract(mem, session_id) == mem[session_id]

clear_contract(mem, session_id) == [mem EXCEPT ![session_id] = None]

_detect_language(text) ==
    IF text = <<>> THEN "english"
    ELSE IF SumOver(text, "alpha") = 0 THEN "english"
    ELSE IF 10 * SumOver(text, "arabic") > 3 * SumOver(text, "alpha") THEN "arabic"
    ELSE "english"

\* (is_valid, alert) made of the result of the date scan
DateAlert(lang, r) ==
    IF ~r.valid
    THEN [ok |-> FALSE,
          alert |-> IF lang = "arabic"
                    THEN <<"ALERT_AR_PRE">> \o r.error \o <<"ALERT_AR_POST">>
                    ELSE <<"ALERT_EN_PRE">> \o r.error \o <<"ALERT_EN_POST">>]
    ELSE [ok |-> TRUE, alert |-> <<>>]

_validate_dates_in_text(ref, text, lang) ==
    DateAlert(lang, extract_and_validate_dates(ref, text, FALSE))

\* The decision made of the classifier's completion: None when the call
\* failed, text that is not JSON, or a JSON object whose fields may be missing
\* or of the wrong type.
ChatFallback(reasoning) == [action |-> "chat", confidence |-> "0.0", reasoning |-> reasoning]

\* result['action'], result['confidence']:.2f and result['reasoning'] are all
\* evaluated by the print; any exception is a parse error
_classify_intent(response) ==
    IF IsNone(response) THEN ChatFallback("API error")
    ELSE IF Val(response).kind # "json" THEN ChatFallback("Parse error")
    ELSE IF Val(response).action = "<missing>" THEN ChatFallback("Parse error")
    ELSE IF Val(response).confidence # "float" THEN ChatFallback("Parse error")
    ELSE IF Val(response).reasoning = "<missing>" THEN ChatFallback("Parse error")
    ELSE [action |-> Val(response).action, confidence |-> Val(response).confidence,
          reasoning |-> Val(response).reasoning]

\* Each operation returns its return value and the backends it invoked.
\* GenerateOutput that returns the generated text without looking at the scan
\* of its dates
GenerateOutput_NoOutputCheck(lang, generated_contract, v2) ==
    [ret |-> Some(generated_contract), calls |-> {"search", "completion"}]

\* generate_contract from "Validate output dates" on
GenerateOutput(lang, generated_contract, v2) ==
    IF ~v2.ok
    THEN [ret |-> Some(IF lang = "arabic"
                       THEN <<"GEN_BAD_AR_PRE">> \o v2.alert \o <<"GEN_BAD_AR_POST">>
                       ELSE <<"GEN_BAD_EN_PRE">> \o v2.alert \o <<"GEN_BAD_EN_POST">>),
          calls |-> {"search", "completion"}]
    ELSE [ret |-> Some(generated_contract), calls |-> {"search", "completion"}]

\* GenerateFrom that scans the dates of the request only after retrieval and
\* completion have been invoked
GenerateFrom_ScansAfterCompletion(ref, lang, v1, response) ==
    IF ~v1.ok THEN [ret |-> Some(v1.alert), calls |-> {"search", "completion"}]
    ELSE IF IsNone(response)
    THEN [ret |-> Some(IF lang = "arabic" THEN <<"GEN_FAIL_AR">> ELSE <<"GEN_FAIL_EN">>),
          calls |-> {"search", "completion"}]
    ELSE GenerateOutput(lang, Strip(Val(response)),
                        _validate_dates_in_text(ref, Strip(Val(response)), lang))

\* generate_contract after the scan v1 of the request's dates
GenerateFrom(ref, lang, v1, response) ==
    IF ~v1.ok THEN [ret |-> Some(v1.alert), calls |-> {}]
    ELSE IF IsNone(response)
    THEN [ret |-> Some(IF lang = "arabic" THEN <<"GEN_FAIL_AR">> ELSE <<"GEN_FAIL_EN">>),
          calls |-> {"search", "completion"}]
    ELSE GenerateOutput(lang, Strip(Val(response)),
                        _validate_dates_in_text(ref, Strip(Val(response)), lang))

generate_contract(ref, user_input, response) ==
    GenerateFrom(ref, _detect_language(user_input),
                 _validate_dates_in_text(ref, user_input, _detect_language(user_input)),
                 response)

\* edit_contract from "Validate output dates" on
EditOutput(lang, edited_contract, v2) ==
    IF ~v2.ok
    THEN [ret |-> Some(IF lang = "arabic"
                       THEN <<"EDIT_BAD_AR_PRE">> \o v2.alert \o <<"EDIT_BAD_AR_POST">>
                       ELSE <<"EDIT_BAD_EN_PRE">> \o v2.alert \o <<"EDIT_BAD_EN_POST">>),
          calls |-> {"completion"}]
    ELSE [ret |-> Some(edited_contract), calls |-> {"completion"}]

\* edit_contract after the scan v1 of the request's dates
EditFrom(ref, lang, v1, response) ==
    IF ~v1.ok THEN [ret |-> Some(v1.alert), calls |-> {}]
    ELSE IF IsNone(response)
    THEN [ret |-> Some(IF lang = "arabic" THEN <<"EDIT_FAIL_AR">> ELSE <<"EDIT_FAIL_EN">>),
          calls |-> {"completion"}]
    ELSE EditOutput(lang, Strip(Val(response)),
                    _validate_dates_in_text(ref, Strip(Val(response)), lang))

edit_contract(ref, current_contract, user_request, response) ==
    EditFrom(ref, _detect_language(user_request),
             _validate_dates_in_text(ref, user_request, _detect_language(user_request)),
             response)

review_contract(contract_text, response) ==
    IF IsNone(response)
    THEN [ret |-> Some(IF _detect_language(contract_text) = "arabic"
                       THEN <<"REVIEW_FAIL_AR">> ELSE <<"REVIEW_FAIL_EN">>),
          calls |-> {"search", "completion"}]
    ELSE [ret |-> Some(Strip(Val(response))), calls |-> {"search", "completion"}]

explain_clause(contract_text, user_query, response) ==
    IF IsNone(response)
    THEN [ret |-> Some(IF _detect_language(user_query) = "arabic"
                       THEN <<"EXPLAIN_FAIL_AR">> ELSE <<"EXPLAIN_FAIL_EN">>),
          calls |-> {"search", "completion"}]
    ELSE [ret |-> Some(Strip(Val(response))), calls |-> {"search", "completion"}]

\* updated.startswith(<warning sign>) or <Arabic word for error> in updated[:50]
IsErrorMessage(t) == StartsWithWarn(t) \/ ErrWordWithin(t, 50)

\* what a branch of the router hands back: the memory it leaves, the tuple
\* (message, contract, action) and the operations and backends it invoked
Outcome(mem, msg, contract, action, calls) ==
    [mem |-> mem, msg |-> msg, contract |-> contract, action |-> action, calls |-> calls]

Localized(lang, ar, en) == IF lang = "arabic" THEN <<ar>> ELSE <<en>>

\* CreateResult that tags a failed create "none" while still returning the
\* active contract
CreateResult_NoneKeepsContract(mem, session_id, lang, active_contract, g) ==
    IF TruthyOpt(g.ret) /\ IsErrorMessage(Val(g.ret))
    THEN Outcome(mem, Val(g.ret), active_contract, "none", {"generate_contract"} \cup g.calls)
    ELSE IF TruthyOpt(g.ret)
    THEN Outcome(set_current_contract(mem, Val(g.ret), session_id),
                 Localized(lang, "CREATED_AR", "CREATED_EN"), g.ret, "updated",
                 {"generate_contract"} \cup g.calls)
    ELSE Outcome(mem, Localized(lang, "CREATE_ERR_AR", "CREATE_ERR_EN"),
                 active_contract, "none", {"generate_contract"} \cup g.calls)

\* CreateResult that leaves an existing contract in place
CreateResult_KeepsExisting(mem, session_id, lang, active_contract, g) ==
    IF TruthyOpt(g.ret) /\ IsErrorMessage(Val(g.ret))
    THEN IF TruthyOpt(active_contract)
         THEN Outcome(mem, Val(g.ret), active_contract, "unchanged",
                      {"generate_contract"} \cup g.calls)
         ELSE Outcome(mem, Val(g.ret), None, "none", {"generate_contract"} \cup g.calls)
    ELSE IF TruthyOpt(g.ret) /\ ~TruthyOpt(active_contract)
    THEN Outcome(set_current_contract(mem, Val(g.ret), session_id),
                 Localized(lang, "CREATED_AR", "CREATED_EN"), g.ret, "updated",
                 {"generate_contract"} \cup g.calls)
    ELSE IF TruthyOpt(active_contract)
    THEN Outcome(mem, Localized(lang, "CREATE_ERR_AR", "CREATE_ERR_EN"),
                 active_contract, "unchanged", {"generate_contract"} \cup g.calls)
    ELSE Outcome(mem, Localized(lang, "CREATE_ERR_AR", "CREATE_ERR_EN"), None, "none",
                 {"generate_contract"} \cup g.calls)

\* the create branch once generate_contract has returned g
CreateResult(mem, session_id, lang, active_contract, g) ==
    IF TruthyOpt(g.ret) /\ IsErrorMessage(Val(g.ret))
    THEN IF TruthyOpt(active_contract)
         THEN Outcome(mem, Val(g.ret), active_contract, "unchanged",
                      {"generate_contract"} \cup g.calls)
         ELSE Outcome(mem, Val(g.ret), None, "none", {"generate_contract"} \cup g.calls)
    ELSE IF TruthyOpt(g.ret)
    THEN Outcome(set_current_contract(mem, Val(g.ret), session_id),
                 Localized(lang, "CREATED_AR", "CREATED_EN"), g.ret, "updated",
                 {"generate_contract"} \cup g.calls)
    ELSE IF TruthyOpt(active_contract)
    THEN Outcome(mem, Localized(lang, "CREATE_ERR_AR", "CREATE_ERR_EN"),
                 active_contract, "unchanged", {"generate_contract"} \cup g.calls)
    ELSE Outcome(mem, Localized(lang, "CREATE_ERR_AR", "CREATE_ERR_EN"), None, "none",
                 {"generate_contract"} \cup g.calls)

CreateBranch(mem, ref, session_id, lang, user_input, active_contract, response) ==
    CreateResult(mem, session_id, lang, active_contract,
                 generate_contract(ref, user_input, response))

\* EditResult that stores what edit_contract returned also when it is an
\* error message
EditResult_StoresAlert(mem, session_id, lang, active_contract, e) ==
    IF TruthyOpt(e.ret) /\ IsErrorMessage(Val(e.ret))
    THEN Outcome(set_current_contract(mem, Val(e.ret), session_id),
                 Val(e.ret), active_contract, "unchanged", {"edit_contract"} \cup e.calls)
    ELSE IF /\ TruthyOpt(e.ret)
            /\ StrLen(Strip(Val(e.ret))) >= MIN_CONTRACT_LENGTH
            /\ Val(e.ret) # Val(active_contract)
    THEN Outcome(set_current_contract(mem, Val(e.ret), session_id),
                 Localized(lang, "UPDATED_AR", "UPDATED_EN"), e.ret, "updated",
                 {"edit_contract"} \cup e.calls)
    ELSE Outcome(mem, Localized(lang, "NOT_UPDATED_AR", "NOT_UPDATED_EN"),
                 active_contract, "unchanged", {"edit_contract"} \cup e.calls)

\* EditResult that reports an update without writing it to the memory
EditResult_ForgetsToStore(mem, session_id, lang, active_contract, e) ==
    IF TruthyOpt(e.ret) /\ IsErrorMessage(Val(e.ret))
    THEN Outcome(mem, Val(e.ret), active_contract, "unchanged", {"edit_contract"} \cup e.calls)
    ELSE IF /\ TruthyOpt(e.ret)
            /\ StrLen(Strip(Val(e.ret))) >= MIN_CONTRACT_LENGTH
            /\ Val(e.ret) # Val(active_contract)
    THEN Outcome(mem, Localized(lang, "UPDATED_AR", "UPDATED_EN"), e.ret, "updated",
                 {"edit_contract"} \cup e.calls)
    ELSE Outcome(mem, Localized(lang, "NOT_UPDATED_AR", "NOT_UPDATED_EN"),
                 active_contract, "unchanged", {"edit_contract"} \cup e.calls)

\* the edit branch once edit_contract has returned e
EditResult(mem, session_id, lang, active_contract, e) ==
    IF TruthyOpt(e.ret) /\ IsErrorMessage(Val(e.ret))
    THEN Outcome(mem, Val(e.ret), active_contract, "unchanged", {"edit_contract"} \cup e.calls)
    ELSE IF /\ TruthyOpt(e.ret)
            /\ StrLen(Strip(Val(e.ret))) >= MIN_CONTRACT_LENGTH
            /\ Val(e.ret) # Val(active_contract)
    THEN Outcome(set_current_contract(mem, Val(e.ret), session_id),
                 Localized(lang, "UPDATED_AR", "UPDATED_EN"), e.ret, "updated",
                 {"edit_contract"} \cup e.calls)
    ELSE Outcome(mem, Localized(lang, "NOT_UPDATED_AR", "NOT_UPDATED_EN"),
                 active_contract, "unchanged", {"edit_contract"} \cup e.calls)

EditBranch(mem, ref, session_id, lang, user_input, active_contract, response) ==
    IF IsNone(active_contract)
    THEN Outcome(mem, Localized(lang, "NEED_EDIT_AR", "NEED_EDIT_EN"), None, "none", {})
    ELSE EditResult(mem, session_id, lang, active_contract,
                    edit_contract(ref, Val(active_contract), user_input, response))

\* the explain branch once explain_clause has returned x
ExplainResult(mem, active_contract, x) ==
    Outcome(mem, Val(x.ret), active_contract, "unchanged", {"explain_clause"} \cup x.calls)

\* ExplainBranch without the check for an active contract
ExplainBranch_NoPrecondition(mem, lang, user_input, active_contract, response) ==
    ExplainResult(mem, active_contract, explain_clause(<<>>, user_input, response))

ExplainBranch(mem, lang, user_input, active_contract, response) ==
    IF IsNone(active_contract)
    THEN Outcome(mem, Localized(lang, "NEED_EXPLAIN_AR", "NEED_EXPLAIN_EN"), None, "none", {})
    ELSE ExplainResult(mem, active_contract,
                       explain_clause(Val(active_contract), user_input, response))

\* ReviewResult that keeps the review as the contract of every session
ReviewResult_StoresReview(mem, active_contract, x) ==
    Outcome([s \in DOMAIN mem |-> x.ret], Val(x.ret), active_contract, "unchanged",
            {"review_contract"} \cup x.calls)

\* the review branch once review_contract has returned x
ReviewResult(mem, active_contract, x) ==
    Outcome(mem, Val(x.ret), active_contract, "unchanged", {"review_contract"} \cup x.calls)

ReviewBranch(mem, lang, active_contract, response) ==
    IF IsNone(active_contract)
    THEN Outcome(mem, Localized(lang, "NEED_REVIEW_AR", "NEED_REVIEW_EN"), None, "none", {})
    ELSE ReviewResult(mem, active_contract, review_contract(Val(active_contract), response))

\* ChatBranch that forgets the contract of every session
ChatBranch_DropsContract(mem, lang, active_contract, response) ==
    Outcome([s \in DOMAIN mem |-> None],
            IF IsNone(response) THEN Localized(lang, "CHAT_FAIL_AR", "CHAT_FAIL_EN")
            ELSE Strip(Val(response)),
            IF IsNone(active_contract) THEN None ELSE active_contract,
            IF IsNone(active_contract) THEN "none" ELSE "unchanged",
            {"completion"})

ChatBranch(mem, lang, active_contract, response) ==
    Outcome(mem,
            IF IsNone(response) THEN Localized(lang, "CHAT_FAIL_AR", "CHAT_FAIL_EN")
            ELSE Strip(Val(response)),
            IF IsNone(active_contract) THEN None ELSE active_contract,
            IF IsNone(active_contract) THEN "none" ELSE "unchanged",
            {"completion"})

\* "Sync contract to memory": the contract of the caller, when it is not blank
SuppliesContract(current_contract) ==
    TruthyOpt(current_contract) /\ Truthy(Strip(Val(current_contract)))

\* SyncContract that stores the stripped text of the caller's contract
SyncContract_StoresStripped(mem, current_contract, session_id) ==
    IF SuppliesContract(current_contract)
    THEN set_current_contract(mem, Strip(Val(current_contract)), session_id)
    ELSE mem

SyncContract(mem, current_contract, session_id) ==
    IF SuppliesContract(current_contract)
    THEN set_current_contract(mem, Val(current_contract), session_id)
    ELSE mem

ActiveContract(mem, current_contract, session_id) ==
    IF SuppliesContract(current_contract)
    THEN Some(Strip(Val(current_contract)))
    ELSE get_current_contract(SyncContract(mem, current_contract, session_id), session_id)

\* "Route based on classified intent"
Route(action_type, mem, ref, session_id, lang, user_input, active_contract, response) ==
    IF action_type = "create"
    THEN CreateBranch(mem, ref, session_id, lang, user_input, active_contract, response)
    ELSE IF action_type = "edit"
    THEN EditBranch(mem, ref, session_id, lang, user_input, active_contract, response)
    ELSE IF action_type = "explain"
    THEN ExplainBranch(mem, lang, user_input, active_contract, response)
    ELSE IF action_type = "review"
    THEN ReviewBranch(mem, lang, active_contract, response)
    ELSE ChatBranch(mem, lang, active_contract, response)

get_chat_response(mem, ref, user_input, current_contract, session_id, cls_response, response) ==
    Route(_classify_intent(cls_response).action,
          SyncContract(mem, current_contract, session_id), ref, session_id,
          _detect_language(user_input), user_input,
          ActiveContract(mem, current_contract, session_id), response)

(***************************************************************************)
(* Requests                                                                *)
(***************************************************************************)
UserInputs ==
    { <<"edit the rent clause">>,
      <<"start on ", "30/02/2031">>,
      <<"AR_REQUEST">> }

SuppliedContracts ==
    { None,
      Some(<<" ">>),
      Some(<<"LEASE_A">>),
      Some(<<" ", "LEASE_A", " ">>),
      Some(<<"LEASE_A", " ", "from 01/06/2031 to 01/01/2031">>) }

JsonIntent(action, confidence, reasoning) ==
    Some([kind |-> "json", action |-> action, confidence |-> confidence,
          reasoning |-> reasoning])

ClassifierResponses ==
    { None }
    \cup { JsonIntent(a, "float", "text") :
             a \in {"create", "edit", "explain", "review", "chat"} }

Completions ==
    { None,
      Some(<<>>),
      Some(<<"LEASE_A">>),
      Some(<<" ", "LEASE_A", " ">>),
      Some(<<"LEASE_B", " ", "from 01/01/2031 to 01/06/2031">>),
      Some(<<"LEASE_199">>),
      Some(<<"LEASE_B", " ", "30/02/2031">>) }

ReferenceDates == { [y |-> 2026, m |-> 11, d |-> 2, secs |-> 36000] }

NoRequest ==
    [op |-> "none", session_id |-> "default", user_input |-> <<>>, current_contract |-> None,
     active |-> None, intent |-> "",
     backend |-> "not called", raw |-> None,
     msg |-> <<>>, contract |-> None, action |-> "", calls |-> {}]

NoCall == [op |-> "none", args |-> <<>>, done |-> FALSE, result |-> <<>>]

\* a server thread that handles no message
Idle ==
    [pc |-> "idle", session_id |-> "", user_input |-> <<>>, current_contract |-> None,
     active |-> None]

Threads == {"t1", "t2"}

NoThreads == [t \in Threads |-> Idle]

\* a browser that has not talked to the server yet: no chat_id, no contract
NoSession == [chat_id |-> None, current_contract |-> None, issued |-> 0]

Init ==
    /\ contract_memory = [s \in Sessions |-> None]
    /\ reference_date \in ReferenceDates
    /\ last = NoRequest
    /\ call = NoCall
    /\ threads = NoThreads
    /\ flask_session = NoSession

GetChatResponse ==
    \E session_id \in Sessions, user_input \in UserInputs,
       current_contract \in SuppliedContracts,
       cls_response \in ClassifierResponses, response \in Completions :
        \E r \in {get_chat_response(contract_memory, reference_date, user_input,
                                   current_contract, session_id, cls_response, response)} :
        LET called == "completion" \in r.calls
        IN  /\ contract_memory' = r.mem
            /\ last' = [op |-> "get_chat_response",
                        session_id |-> session_id,
                        user_input |-> user_input,
                        current_contract |-> current_contract,
                        active |-> ActiveContract(contract_memory, current_contract, session_id),
                        intent |-> _classify_intent(cls_response).action,
                        backend |-> IF ~called THEN "not called"
                                    ELSE IF IsNone(response) THEN "failed" ELSE "answered",
                        raw |-> IF called THEN response ELSE None,
                        msg |-> r.msg, contract |-> r.contract, action |-> r.action,
                        calls |-> r.calls]
            /\ UNCHANGED <<reference_date, call, threads, flask_session>>

ClearContract ==
    \E session_id \in DOMAIN contract_memory :
        /\ contract_memory' = clear_contract(contract_memory, session_id)
        /\ last' = [NoRequest EXCEPT !.op = "clear_contract", !.session_id = session_id]
        /\ UNCHANGED <<reference_date, call, threads, flask_session>>

Next == GetChatResponse \/ ClearContract

Spec == Init /\ [][Next]_vars

TypeOK ==
    /\ \A s \in Sessions : Len(contract_memory[s]) <= 1
    /\ last.action \in {"", "updated", "unchanged", "none"}

(***************************************************************************)
(* The router under the threaded server: flask_app.py runs app.run(), whose *)
(* development server handles every request in a thread of its own, and     *)
(* all the threads share the one LLMClient.  get_chat_response takes no     *)
(* lock; it blocks on the classifier and on the completion backend between  *)
(* its read of the memory and its write, so that other calls run meanwhile. *)
(***************************************************************************)
ChatSessions == {"chat-1", "chat-2"}

ConcurrentCompletions ==
    { None,
      Some(<<"LEASE_B">>),
      Some(<<"LEASE_B", " ", "from 01/01/2031 to 01/06/2031">>) }

\* the classifier fails (chat) or answers create, edit or review
ConcurrentIntents ==
    { None } \cup { JsonIntent(a, "float", "text") : a \in {"create", "edit", "review"} }

ConcurrentInit ==
    /\ contract_memory = [s \in ChatSessions |-> None]
    /\ reference_date \in ReferenceDates
    /\ last = NoRequest
    /\ call = NoCall
    /\ threads = NoThreads
    /\ flask_session = NoSession

\* get_chat_response up to the call of the classifier: "Sync contract to
\* memory", then the read of the stored contract
Begin(t) ==
    /\ threads[t].pc = "idle"
    /\ \E session_id \in ChatSessions, user_input \in { <<"edit the rent clause">> },
          current_contract \in { None, Some(<<"LEASE_A">>), Some(<<" ", "LEASE_A", " ">>) } :
        /\ contract_memory' = SyncContract(contract_memory, current_contract, session_id)
        /\ threads' = [threads EXCEPT ![t] =
                         [pc |-> "routing", session_id |-> session_id,
                          user_input |-> user_input, current_contract |-> current_contract,
                          active |-> ActiveContract(contract_memory, current_contract,
                                                    session_id)]]
        /\ last' = [NoRequest EXCEPT !.op = "sync", !.session_id = session_id]
    /\ UNCHANGED <<reference_date, call, flask_session>>

\* get_chat_response from the answer of the classifier on: the branch works on
\* the active contract read before and writes the memory as it is now
Finish(t) ==
    /\ threads[t].pc = "routing"
    /\ \E cls_response \in ConcurrentIntents, response \in ConcurrentCompletions :
        \E r \in {Route(_classify_intent(cls_response).action, contract_memory,
                        reference_date, threads[t].session_id,
                        _detect_language(threads[t].user_input), threads[t].user_input,
                        threads[t].active, response)} :
            /\ contract_memory' = r.mem
            /\ last' = [NoRequest EXCEPT !.op = "get_chat_response",
                                         !.session_id = threads[t].session_id,
                                         !.intent = _classify_intent(cls_response).action,
                                         !.action = r.action]
    /\ threads' = [threads EXCEPT ![t] = Idle]
    /\ UNCHANGED <<reference_date, call, flask_session>>

\* LLMClient.set_current_contract called by the transport layer
SetCurrentContract ==
    /\ \E session_id \in ChatSessions, contract \in {<<"LEASE_A">>, <<"LEASE_B">>} :
        /\ contract_memory' = set_current_contract(contract_memory, contract, session_id)
        /\ last' = [NoRequest EXCEPT !.op = "set_current_contract",
                                     !.session_id = session_id]
    /\ UNCHANGED <<reference_date, call, threads, flask_session>>

ConcurrentNext ==
    \/ \E t \in Threads : Begin(t)
    \/ \E t \in Threads : Finish(t)
    \/ SetCurrentContract
    \/ ClearContract

ConcurrentSpec == ConcurrentInit /\ [][ConcurrentNext]_vars

(***************************************************************************)
(* The transport layer: the handlers of flask_app.py for one browser, one   *)
(* request at a time.  The Flask session holds chat_id and current_contract;*)
(* issued counts the identifiers uuid4 has given out, each one new.         *)
(***************************************************************************)
\* chat ids are numbered from 1 to MaxChatIds
MaxChatIds == 3

FlaskInit ==
    /\ contract_memory = [s \in 1..MaxChatIds |-> None]
    /\ reference_date \in ReferenceDates
    /\ last = NoRequest
    /\ call = NoCall
    /\ threads = NoThreads
    /\ flask_session = NoSession

\* _get_chat_id: the session after the call; a session without chat_id gets a
\* new uuid
WithChatId(sess) ==
    IF IsNone(sess.chat_id)
    THEN [sess EXCEPT !.chat_id = Some(sess.issued + 1), !.issued = sess.issued + 1]
    ELSE sess

\* POST /api/chat: the contract of the frontend is used if provided, the one
\* of the session otherwise; _set_current_contract runs "only when contract
\* actually changed"
ApiChat ==
    \E message \in { <<"edit the rent clause">>, <<" ">> },
       frontend_contract \in { None, Some(<<>>), Some(<<"LEASE_A">>),
                               Some(<<" ", "LEASE_A", " ">>) },
       cls_response \in ConcurrentIntents, response \in { None, Some(<<"LEASE_B">>) } :
        IF ~Truthy(Strip(message))
        THEN /\ last' = [NoRequest EXCEPT !.op = "/api/chat", !.msg = <<"Message is required">>]
             /\ UNCHANGED <<contract_memory, reference_date, call, threads, flask_session>>
        ELSE /\ IsNone(flask_session.chat_id) => flask_session.issued < MaxChatIds
             /\ \E sess \in {WithChatId(flask_session)} :
                 \E r \in {get_chat_response(contract_memory, reference_date, Strip(message),
                                             (IF TruthyOpt(frontend_contract)
                                              THEN frontend_contract
                                              ELSE sess.current_contract),
                                             Val(sess.chat_id), cls_response, response)} :
                    /\ contract_memory' =
                         IF r.action = "updated"
                         THEN set_current_contract(r.mem, Val(r.contract), Val(sess.chat_id))
                         ELSE r.mem
                    /\ flask_session' =
                         IF r.action = "updated"
                         THEN [sess EXCEPT !.current_contract = r.contract]
                         ELSE sess
                    /\ last' = [NoRequest EXCEPT !.op = "/api/chat",
                                                 !.session_id = Val(sess.chat_id),
                                                 !.current_contract = frontend_contract,
                                                 !.msg = r.msg,
                                                 !.contract = IF r.action = "none" THEN None
                                                              ELSE r.contract,
                                                 !.action = r.action]
             /\ UNCHANGED <<reference_date, call, threads>>

\* POST /api/clear-session: _clear_current_contract(), then session.clear()
ApiClearSession ==
    /\ IsNone(flask_session.chat_id) => flask_session.issued < MaxChatIds
    /\ \E sess \in {WithChatId(flask_session)} :
        /\ contract_memory' = clear_contract(contract_memory, Val(sess.chat_id))
        /\ flask_session' = [chat_id |-> None, current_contract |-> None,
                             issued |-> sess.issued]
        /\ last' = [NoRequest EXCEPT !.op = "/api/clear-session",
                                     !.session_id = Val(sess.chat_id)]
    /\ UNCHANGED <<reference_date, call, threads>>

\* GET /api/get-contract
ApiGetContract ==
    /\ last' = [NoRequest EXCEPT !.op = "/api/get-contract",
                                 !.contract = flask_session.current_contract,
                                 !.action = IF IsNone(flask_session.current_contract)
                                            THEN "none" ELSE "unchanged"]
    /\ UNCHANGED <<contract_memory, reference_date, call, threads, flask_session>>

FlaskNext == ApiChat \/ ApiClearSession \/ ApiGetContract

FlaskSpec == FlaskInit /\ [][FlaskNext]_vars

(***************************************************************************)
(* Single calls of the date validator and of the intent classifier: the    *)
(* initial state holds the arguments of one call, the action of the called *)
(* function records what it returns.                                       *)
(***************************************************************************)
\* the years of the calls is_valid_date(29, 2, year) run from 0 to MaxYear
MaxYear == 10004

Separators == {"/", "-", "."}

Pad4(n) ==
    IF n < 10 THEN "000" \o ToString(n)
    ELSE IF n < 100 THEN "00" \o ToString(n)
    ELSE IF n < 1000 THEN "0" \o ToString(n)
    ELSE ToString(n)

\* n written on w digits at least (w = 1: no padding)
Digits(n, w) == IF w = 4 THEN Pad4(n) ELSE IF w = 2 THEN Pad2(n) ELSE ToString(n)

Width(n, w) == IF n >= 10 /\ w < 2 THEN 2 ELSE w

\* the date dt written day first or year first, day and month on w digits
FormatDate(dt, layout, sep, w) ==
    IF layout = "dmy"
    THEN NumLit(Digits(dt.d, w) \o sep \o Digits(dt.m, w) \o sep \o Digits(dt.y, 4), sep,
                dt.d, Width(dt.d, w), dt.m, Width(dt.m, w), dt.y, 4)
    ELSE NumLit(Digits(dt.y, 4) \o sep \o Digits(dt.m, w) \o sep \o Digits(dt.d, w), sep,
                dt.y, 4, dt.m, Width(dt.m, w), dt.d, Width(dt.d, w))

RoundTripYears == {1, 1900, 2023, 2024, 9999}

\* the real calendar dates of the years above
RoundTripDates ==
    { [y |-> y, m |-> m, d |-> d] :
        y \in RoundTripYears, m \in 1..12, d \in 1..31 } \ 
    { dt \in [y : RoundTripYears, m : 1..12, d : 29..31] : dt.d > DaysInMonth(dt.y, dt.m) }

\* the dates written with a month name: every day of the month of every name,
\* in a common year and in a leap year
ArabicWritings ==
    { a \in [date : { dt \in RoundTripDates : dt.y \in {1900, 2024} },
             name : DOMAIN ARABIC_MONTHS] :
        ARABIC_MONTHS[a.name].month = a.date.m }

\* texts with one date of an Arabic month name
ArabicScanTexts ==
    { <<"AR_REQUEST", " ", "23 " \o name \o " 2031">> : name \in DOMAIN ARABIC_MONTHS }

SampleLits ==
    { DateLit("10/01/2026", "dmy", "/", 10, 1, 2026),
      DateLit("05/01/2026", "dmy", "/", 5, 1, 2026),
      DateLit("02/11/2026", "dmy", "/", 2, 11, 2026),
      DateLit("03/11/2026", "dmy", "/", 3, 11, 2026),
      D_01_01_2031, D_01_06_2031, D_30_02_2031, D_01_01_2150, D_01_01_2020,
      DateLit("30/02/2026", "dmy", "/", 30, 2, 2026),
      DateLit("31-04-2026", "dmy", "-", 31, 4, 2026),
      DateLit("2026/04/31", "ymd", "/", 2026, 4, 31),
      DateLit("29/02/2023", "dmy", "/", 29, 2, 2023),
      DateLit("29/02/2024", "dmy", "/", 29, 2, 2024),
      DateLit("01/01/1900", "dmy", "/", 1, 1, 1900),
      DateLit("31/12/1899", "dmy", "/", 31, 12, 1899),
      DateLit("31/12/2100", "dmy", "/", 31, 12, 2100),
      NumLit("1/1/26", "/", 1, 1, 1, 1, 26, 2) }

ScanTexts ==
    UserInputs \cup
    { <<"01/01/2031">>,
      <<"LEASE_B", " ", "from 01/01/2031 to 01/06/2031">>,
      <<"LEASE_A", " ", "from 01/06/2031 to 01/01/2031">>,
      <<"from 01/01/2020 to 01/01/2031">>,
      <<"30/02/2031", " ", "01/01/2150">>,
      <<"30/02/2031", " ", "from 01/06/2031 to 01/01/2031">> }

ClassifierOutcomes ==
    ClassifierResponses \cup
    { Some([kind |-> "text", action |-> "", confidence |-> "", reasoning |-> ""]),
      JsonIntent("<missing>", "float", "text"),
      JsonIntent("edit", "<missing>", "text"),
      JsonIntent("edit", "str", "text"),
      JsonIntent("edit", "float", "<missing>"),
      JsonIntent("delete", "float", "text"),
      JsonIntent("CREATE", "float", "text") }

ValidatorReferenceDates ==
    ReferenceDates \cup
    { [y |-> 2026, m |-> 1, d |-> 10, secs |-> 0],
      [y |-> 2026, m |-> 1, d |-> 10, secs |-> 1],
      [y |-> 1900, m |-> 1, d |-> 1, secs |-> 0] }

\* the texts given to _detect_language hold up to 2 * MaxRun Latin letters
\* and up to MaxRun characters of each Arabic kind
MaxRun == 4

Repeat(chunk, n) == [i \in 1..n |-> chunk]

\* texts of single characters: Latin letters, then Arabic letters, then
\* characters of the Arabic block that are not letters, around a space
DetectTexts ==
    { Repeat("a", latin) \o Repeat(" ", spaces) \o Repeat("ALEF", letters)
        \o Repeat(mark, marks) :
        latin \in 0..(2 * MaxRun), spaces \in 0..1, letters \in 0..MaxRun,
        marks \in 0..MaxRun, mark \in {"ARABIC_INDIC_1", "ARABIC_COMMA"} }

Pending(op, args) == [op |-> op, args |-> args, done |-> FALSE, result |-> <<>>]

\* the pending call is one that does not read reference_date
UndatedCalls ==
    \/ call \in { Pending("is_valid_date", [day |-> 29, month |-> 2, year |-> y]) : y \in 0..MaxYear }
    \/ call \in { Pending("is_valid_date", [day |-> d, month |-> m, year |-> y]) :
             d \in {0, 1, 28, 29, 30, 31, 32}, m \in {0, 1, 2, 4, 12, 13},
             y \in {-400, -4, 1900, 2023, 2024, 9999} }
    \/ call \in { Pending("parse_date", [date |-> dt, layout |-> layout, width |-> w,
                                  lit |-> FormatDate(dt, layout, sep, w)]) :
             dt \in RoundTripDates, layout \in {"dmy", "ymd"}, sep \in Separators,
             w \in {1, 2} }
    \/ call \in { Pending("parse_date", [date |-> a.date, layout |-> "arabic", width |-> w,
                                  lit |-> ArabicLit(Digits(a.date.d, w) \o " " \o a.name \o " "
                                                     \o Digits(a.date.y, 4),
                                                   a.date.d, Width(a.date.d, w),
                                                   a.name, a.date.y)]) :
             a \in ArabicWritings, w \in {1, 2} }
    \/ call \in { Pending("validate_date", [lit |-> lit]) : lit \in SampleLits }
    \/ call \in { Pending("_classify_intent", [response |-> r]) : r \in ClassifierOutcomes }
    \/ call \in { Pending("_detect_language", [text |-> t]) : t \in DetectTexts }

\* the pending call is one that reads reference_date
DatedCalls ==
    \/ call \in { Pending("validate_date_range",
              [start |-> s, end |-> e, allow_past_start |-> a,
               min_duration_days |-> lo, max_duration_days |-> hi]) :
        s \in SampleLits, e \in SampleLits, a \in BOOLEAN,
        lo \in {-400, 0, 1, 30}, hi \in {0, 365, 36500} }
    \/ call \in { Pending("extract_and_validate_dates", [text |-> t, allow_past_start |-> a]) :
             t \in ScanTexts \cup ArabicScanTexts, a \in BOOLEAN }
    \/ call \in { Pending("get_validation_suggestions", [lit |-> lit]) : lit \in SampleLits }
    \/ call \in { Pending("get_chat_response",
                    [stored |-> stored, user_input |-> u, current_contract |-> c,
                     cls_response |-> cls, response |-> r]) :
             stored \in {None, Some(<<"LEASE_A">>)}, u \in UserInputs,
             c \in {None, Some(<<"LEASE_A">>)}, cls \in ClassifierOutcomes,
             r \in Completions }

FunctionInit ==
    /\ contract_memory = [s \in Sessions |-> None]
    /\ last = NoRequest
    /\ threads = NoThreads
    /\ flask_session = NoSession
    /\ \/ reference_date \in ReferenceDates /\ UndatedCalls
       \/ reference_date \in ValidatorReferenceDates /\ DatedCalls

\* the call returns
Return(result) ==
    /\ call' = [call EXCEPT !.done = TRUE, !.result = result]
    /\ UNCHANGED <<contract_memory, reference_date, last, threads, flask_session>>

IsValidDate ==
    /\ call.op = "is_valid_date" /\ ~call.done
    /\ Return(is_valid_date(call.args.day, call.args.month, call.args.year))

ParseDate ==
    /\ call.op = "parse_date" /\ ~call.done
    /\ Return(parse_date(call.args.lit))

ValidateDate ==
    /\ call.op = "validate_date" /\ ~call.done
    /\ Return(validate_date(call.args.lit))

ValidateDateRange ==
    /\ call.op = "validate_date_range" /\ ~call.done
    /\ Return(validate_date_range(reference_date, call.args.start, call.args.end,
                                  call.args.allow_past_start, call.args.min_duration_days,
                                  call.args.max_duration_days))

ExtractAndValidateDates ==
    /\ call.op = "extract_and_validate_dates" /\ ~call.done
    /\ Return(extract_and_validate_dates(reference_date, call.args.text,
                                         call.args.allow_past_start))

GetValidationSuggestions ==
    /\ call.op = "get_validation_suggestions" /\ ~call.done
    /\ Return(get_validation_suggestions(reference_date, call.args.lit))

ClassifyIntent ==
    /\ call.op = "_classify_intent" /\ ~call.done
    /\ Return(_classify_intent(call.args.response))

DetectLanguage ==
    /\ call.op = "_detect_language" /\ ~call.done
    /\ Return(_detect_language(call.args.text))

\* one routed message of session "default" whose memory holds call.args.stored
RouteMessage ==
    /\ call.op = "get_chat_response" /\ ~call.done
    /\ Return(get_chat_response([s \in Sessions |-> call.args.stored], reference_date,
                                call.args.user_input, call.args.current_contract,
                                "default", call.args.cls_response, call.args.response))

FunctionNext ==
    \/ IsValidDate
    \/ ParseDate
    \/ ValidateDate
    \/ ValidateDateRange
    \/ ExtractAndValidateDates
    \/ GetValidationSuggestions
    \/ ClassifyIntent
    \/ DetectLanguage
    \/ RouteMessage

FunctionSpec == FunctionInit /\ [][FunctionNext]_vars

\* the call of op has returned
Returned(op) == call.op = op /\ call.done

(***************************************************************************)
(* Properties of the router                                                *)
(***************************************************************************)
Routed == last.op = "get_chat_response"

\* the artifact of a session once the contract of the caller has been synced
Reconciled(mem, current_contract, session_id) ==
    SyncContract(mem, current_contract, session_id)[session_id]

DateScanOk(text) == extract_and_validate_dates(reference_date, text, FALSE).valid

\* the edit request of the last call reached edit_contract and its dates were rejected
EditRequestRejected(l) ==
    /\ l.op = "get_chat_response"
    /\ l.intent = "edit"
    /\ "edit_contract" \in l.calls
    /\ ~DateScanOk(l.user_input)

\* C1 (as claimed): when a call is classified as edit and the dates of its edit
\* request are rejected, the artifact stored for the session after the call is
\* the artifact that was stored before the call, whatever the caller supplied.
C1_Original ==
    [][EditRequestRejected(last')
        => contract_memory'[last'.session_id] = contract_memory[last'.session_id]]_vars

\* C1 (amended): when a call is classified as edit and the dates of its edit
\* request are rejected, the artifact stored after the call is the one the
\* reconciliation step left: the contract supplied with the call when it is not
\* blank, otherwise the artifact stored before the call.
C1_NoLossOnRejectedEdit ==
    [][EditRequestRejected(last')
        => contract_memory'[last'.session_id]
             = Reconciled(contract_memory, last'.current_contract, last'.session_id)]_vars

C1_Witness ==
    /\ EditRequestRejected(last)
    /\ IsNone(last.current_contract)
    /\ last.action = "unchanged"
    /\ contract_memory[last.session_id] = last.contract

\* C2: when the completion backend fails inside the dispatched operation, the
\* router answers with action 'unchanged' or 'none' and the stored artifact is
\* the one the operation found: it is not cleared, not replaced, and the
\* fallback error string is not stored as the contract.
C2_BackendFailurePreserves ==
    [][(last'.op = "get_chat_response" /\ last'.backend = "failed")
        => /\ last'.action \in {"unchanged", "none"}
           /\ contract_memory'[last'.session_id]
                = Reconciled(contract_memory, last'.current_contract, last'.session_id)]_vars

\* C3 (as claimed): in every reachable state the artifact stored for a session
\* is a text on which the date scan (allow_past_start = false) succeeds.
C3_Original ==
    \A s \in Sessions :
        ~IsNone(contract_memory[s]) => DateScanOk(Val(contract_memory[s]))

\* C3 (amended): every artifact the create or edit branch writes to Contract
\* Memory, that is the stored artifact after every result with action
\* 'updated', is a text on which the date scan succeeds; the contract a
\* caller supplies is stored by the reconciliation step without a date scan.
C3_UpdatedContractPassesDateScan ==
    (Routed /\ last.action = "updated")
        => /\ ~IsNone(contract_memory[last.session_id])
           /\ DateScanOk(Val(contract_memory[last.session_id]))

C3_Witness ==
    /\ Routed
    /\ last.action = "updated"
    /\ FlatField(Val(contract_memory[last.session_id]), "ranges") # <<>>

\* C4: every result with action 'none' has an absent contract.
C4_NoneHasNoContract ==
    (Routed /\ last.action = "none") => IsNone(last.contract)

C4_Witness ==
    /\ Routed
    /\ last.action = "none"
    /\ last.intent = "create"
    /\ "completion" \in last.calls

\* C5: every result with action 'updated' carries a contract, that contract
\* is the artifact stored for the session when the call returns, and the
\* call was dispatched to create or edit.
C5_UpdatedIsStored ==
    (Routed /\ last.action = "updated")
        => /\ ~IsNone(last.contract)
           /\ contract_memory[last.session_id] = last.contract
           /\ last.intent \in {"create", "edit"}

C5_Witness ==
    /\ Routed
    /\ last.action = "updated"
    /\ last.intent = "edit"

\* C6: whenever the router returns 'updated', the returned contract differs
\* from the artifact stored for the session immediately before the call, or
\* no artifact was stored before the call.
C6_UpdatedDiffersFromPrior ==
    [][(last'.op = "get_chat_response" /\ last'.action = "updated")
        => \/ IsNone(contract_memory[last'.session_id])
           \/ last'.contract # contract_memory[last'.session_id]]_vars

\* C7: whenever the router returns 'unchanged', the returned contract is
\* present and byte-identical to the artifact held in Contract Memory.
C7_UnchangedIsStored ==
    (Routed /\ last.action = "unchanged")
        => /\ ~IsNone(last.contract)
           /\ last.contract = contract_memory[last.session_id]

\* C8: in an edit turn with an active contract, when the raw output of the
\* completion backend equals the contract given to the edit, or is shorter
\* than 200 characters, the router returns 'unchanged' and the edit branch
\* does not write Contract Memory.
C8_NoOpEditIsUnchanged ==
    [][(/\ last'.op = "get_chat_response"
        /\ last'.intent = "edit"
        /\ ~IsNone(last'.active)
        /\ last'.backend = "answered"
        /\ \/ Val(last'.raw) = Val(last'.active)
           \/ StrLen(Val(last'.raw)) < MIN_CONTRACT_LENGTH)
        => /\ last'.action = "unchanged"
           /\ contract_memory'[last'.session_id]
                = Reconciled(contract_memory, last'.current_contract, last'.session_id)]_vars

\* the message of the branch that finds no contract to work on
GuidanceOf(lang, intent) ==
    CASE intent = "edit" -> Localized(lang, "NEED_EDIT_AR", "NEED_EDIT_EN")
      [] intent = "explain" -> Localized(lang, "NEED_EXPLAIN_AR", "NEED_EXPLAIN_EN")
      [] intent = "review" -> Localized(lang, "NEED_REVIEW_AR", "NEED_REVIEW_EN")

GuidanceMessage(l) == GuidanceOf(_detect_language(l.user_input), l.intent)

\* C9: when the caller supplies no contract and none is stored, and the intent
\* is edit, explain or review, the router returns (guidance message, absent,
\* 'none') and invokes no operation and no backend for the turn.
C9_MissingContractPrecondition ==
    [][(/\ last'.op = "get_chat_response"
        /\ last'.intent \in {"edit", "explain", "review"}
        /\ ~SuppliesContract(last'.current_contract)
        /\ IsNone(contract_memory[last'.session_id]))
        => /\ last'.action = "none"
           /\ IsNone(last'.contract)
           /\ last'.msg = GuidanceMessage(last')
           /\ last'.calls = {}
           /\ IsNone(contract_memory'[last'.session_id])]_vars

C9_Witness ==
    /\ Routed
    /\ last.intent = "explain"
    /\ last.current_contract = Some(<<" ">>)
    /\ IsNone(last.active)
    /\ last.action = "none"

\* C10 (as claimed): a turn classified as explain, review or chat leaves the
\* stored artifact as it was before the turn.
C10_Original ==
    [][(last'.op = "get_chat_response" /\ last'.intent \in {"explain", "review", "chat"})
        => contract_memory'[last'.session_id] = contract_memory[last'.session_id]]_vars

\* C10 (amended): after a turn classified as explain, review or chat the
\* stored artifact is the one the reconciliation step left (the contract
\* supplied with the call when it is not blank, otherwise the artifact stored
\* before the turn); the text the operation produced is not stored.
C10_ReadOnlyTurns ==
    [][(last'.op = "get_chat_response" /\ last'.intent \in {"explain", "review", "chat"})
        => contract_memory'[last'.session_id]
             = Reconciled(contract_memory, last'.current_contract, last'.session_id)]_vars

C10_Witness ==
    /\ Routed
    /\ last.intent = "review"
    /\ last.backend = "answered"
    /\ last.action = "unchanged"
    /\ Val(last.raw) # <<>>

\* the text a create turn generated: the stripped output of the completion
\* backend, not empty, passing the date scan and not looking like an error message
GenerationSucceeded(l) ==
    /\ l.op = "get_chat_response"
    /\ l.intent = "create"
    /\ l.backend = "answered"
    /\ Truthy(Strip(Val(l.raw)))
    /\ DateScanOk(Strip(Val(l.raw)))
    /\ ~IsErrorMessage(Strip(Val(l.raw)))

\* C11: a create turn whose generation succeeds returns (success message, the
\* generated text, 'updated') and the artifact stored for the session is then
\* exactly the generated text, whatever artifact the session had.
C11_CreateReplacesArtifact ==
    GenerationSucceeded(last)
        => /\ last.action = "updated"
           /\ last.contract = Some(Strip(Val(last.raw)))
           /\ last.msg = Localized(_detect_language(last.user_input), "CREATED_AR", "CREATED_EN")
           /\ contract_memory[last.session_id] = Some(Strip(Val(last.raw)))

C11_Witness ==
    /\ GenerationSucceeded(last)
    /\ SuppliesContract(last.current_contract)
    /\ last.active # Some(Strip(Val(last.raw)))
    /\ last.action = "updated"
    /\ contract_memory[last.session_id] = Some(Strip(Val(last.raw)))

IntentLabels == {"create", "edit", "explain", "review", "chat"}

\* the completion of the classifier is missing, is not JSON, or lacks a field
\* or holds a confidence that is not a number
ClassificationFailed(response) ==
    \/ IsNone(response)
    \/ Val(response).kind # "json"
    \/ Val(response).action = "<missing>"
    \/ Val(response).confidence # "float"
    \/ Val(response).reasoning = "<missing>"

\* C12: for every outcome of the backend, _classify_intent returns a decision
\* whose action is one of create, edit, explain, review, chat, and on a
\* classification failure the decision is 'chat' with confidence 0 and a
\* rationale that records the failure.
C12_ClassifierReturnsLabel ==
    Returned("_classify_intent")
        => /\ call.result.action \in IntentLabels
           /\ ClassificationFailed(call.args.response)
                => /\ call.result.action = "chat"
                   /\ call.result.confidence = "0.0"
                   /\ call.result.reasoning \in {"API error", "Parse error"}

\* the parsed dates of the two ends of the range of the call
StartDate == Val(parse_date(call.args.start))

EndDate == Val(parse_date(call.args.end))

BothParsed == ~IsNone(parse_date(call.args.start)) /\ ~IsNone(parse_date(call.args.end))

\* C13: whenever both date strings parse and the parsed end is not after the
\* parsed start, validate_date_range returns valid = false, for every
\* allow_past_start, min_duration_days, max_duration_days and reference date.
C13_BackwardRangeFails ==
    (/\ Returned("validate_date_range")
     /\ BothParsed
     /\ ToOrdinal(EndDate) <= ToOrdinal(StartDate))
        => ~call.result.valid

C13_Witness ==
    /\ Returned("validate_date_range")
    /\ validate_date(call.args.start).valid
    /\ validate_date(call.args.end).valid
    /\ ToOrdinal(EndDate) = ToOrdinal(StartDate)
    /\ call.args.allow_past_start
    /\ call.args.min_duration_days <= 0
    /\ ~call.result.valid
    /\ call.result.error[1] = "End date "

\* the call uses the default parameters of validate_date_range
DefaultParameters ==
    /\ ~call.args.allow_past_start
    /\ call.args.min_duration_days = 1
    /\ call.args.max_duration_days = 36500

\* both ends pass validate_date and the start is before the end
ForwardRange ==
    /\ validate_date(call.args.start).valid
    /\ validate_date(call.args.end).valid
    /\ ToOrdinal(StartDate) < ToOrdinal(EndDate)

\* start_date < self.reference_date: a parsed date is the midnight of its day
StartInPast ==
    \/ ToOrdinal(StartDate) < ToOrdinal(reference_date)
    \/ (ToOrdinal(StartDate) = ToOrdinal(reference_date) /\ 0 < reference_date.secs)

\* C14 (as claimed): for every pair of date strings that pass validate_date and
\* parse to start < end, validate_date_range with its default parameters
\* returns valid = true.
C14_Original ==
    (Returned("validate_date_range") /\ DefaultParameters /\ ForwardRange)
        => call.result.valid

\* C14 (amended): for every pair of date strings that pass validate_date and
\* parse to start < end, validate_date_range with its default parameters
\* returns valid = true when the start is not before the reference date and
\* the range is at most 36500 days long.
C14_ForwardRangeSucceeds ==
    (/\ Returned("validate_date_range") /\ DefaultParameters /\ ForwardRange
     /\ ~StartInPast
     /\ ToOrdinal(EndDate) - ToOrdinal(StartDate) <= 36500)
        => call.result.valid

C14_Witness ==
    /\ Returned("validate_date_range") /\ DefaultParameters /\ ForwardRange
    /\ ToOrdinal(StartDate) = ToOrdinal(reference_date)
    /\ reference_date.secs = 0
    /\ call.result.valid

\* the call is is_valid_date(29, 2, year)
Feb29Call ==
    /\ Returned("is_valid_date")
    /\ call.args.day = 29
    /\ call.args.month = 2

\* C15 (as claimed): for every integer year y, is_valid_date(29, 2, y) is true
\* if and only if y is divisible by 4 and (not divisible by 100, or divisible
\* by 400).
C15_Original ==
    Feb29Call
        => (call.result
              <=> /\ call.args.year % 4 = 0
                  /\ (call.args.year % 100 # 0 \/ call.args.year % 400 = 0))

\* C15 (amended): for every year y from 1 to 9999, the years a datetime can
\* hold, is_valid_date(29, 2, y) is true if and only if y is divisible by 4
\* and (not divisible by 100, or divisible by 400); for every other year it
\* is false.
C15_LeapYearInvariant ==
    Feb29Call
        => (call.result
              <=> /\ 1 <= call.args.year /\ call.args.year <= 9999
                  /\ call.args.year % 4 = 0
                  /\ (call.args.year % 100 # 0 \/ call.args.year % 400 = 0))

C15_Witness ==
    /\ Feb29Call
    /\ call.args.year = 2000
    /\ call.result

\* C16: for every real calendar date d and every numeric format (day first
\* or year first, separator '/', '-' or '.', day and month on 1 or 2 digits, a
\* 4-digit year), parse_date of d written in that format returns the date d.
C16_ParseRoundTrip ==
    (Returned("parse_date") /\ call.args.layout \in {"dmy", "ymd"})
        => call.result = Some(call.args.date)

C16_Witness ==
    /\ Returned("parse_date")
    /\ call.args.date = [y |-> 2024, m |-> 2, d |-> 29]
    /\ call.args.lit.text = "2024.2.29"
    /\ call.result = Some(call.args.date)

\* a well-formatted day/month/year literal whose day exceeds the days of its month
DayOverflows(lit) ==
    /\ lit.w1 \in {1, 2} /\ lit.w2 \in {1, 2} /\ lit.w3 = 4
    /\ 1 <= lit.n2 /\ lit.n2 <= 12
    /\ 1 <= lit.n3 /\ lit.n3 <= 9999
    /\ DaysInMonth(lit.n3, lit.n2) < lit.n1 /\ lit.n1 <= 31

\* C17: for a well-formatted day/month/year string whose day exceeds the days
\* of its month (such as "30/02/2026"), validate_date returns valid = false
\* with an error other than the unparseable-format one, and
\* get_validation_suggestions names the day as invalid for its month and year
\* together with the maximum day.
C17_ImpossibleDayReported ==
    /\ (Returned("validate_date") /\ DayOverflows(call.args.lit))
         => /\ ~call.result.valid
            /\ call.result.error[1] # "Invalid date format: "
    /\ (Returned("get_validation_suggestions") /\ DayOverflows(call.args.lit))
         => \E i \in 1..Len(call.result) :
               call.result[i] = <<"Day ", ToString(call.args.lit.n1), " is invalid for month ",
                                  ToString(call.args.lit.n2), "/", ToString(call.args.lit.n3),
                                  ". Maximum day is ",
                                  ToString(DaysInMonth(call.args.lit.n3, call.args.lit.n2))>>

\* validate_date_range("10/01/2026", "05/01/2026", ...) has returned
BackwardScenario ==
    /\ Returned("validate_date_range")
    /\ call.args.start.text = "10/01/2026"
    /\ call.args.end.text = "05/01/2026"

EndBeforeStartMessage ==
    <<"End date ", "05/01/2026", " must be after start date ", "10/01/2026",
      ". The lease period goes backward in time.">>

\* C18 (as claimed): validate_date_range with start "10/01/2026" and end
\* "05/01/2026" returns valid = false with the end-before-start message, for
\* every reference date and both values of allow_past_start.
C18_Original ==
    BackwardScenario
        => /\ ~call.result.valid
           /\ call.result.error = EndBeforeStartMessage

\* C18 (amended): validate_date_range with start "10/01/2026" and end
\* "05/01/2026" returns valid = false; the error is the end-before-start
\* message when allow_past_start is true or the start is not before the
\* reference date, and the start-in-the-past message otherwise.
C18_BackwardScenarioFails ==
    BackwardScenario
        => /\ ~call.result.valid
           /\ IF call.args.allow_past_start \/ ~StartInPast
              THEN call.result.error = EndBeforeStartMessage
              ELSE call.result.error[1] = "Start date "

C18_Witness ==
    /\ BackwardScenario
    /\ ~call.args.allow_past_start
    /\ ~StartInPast
    /\ call.args.min_duration_days = 1
    /\ call.result.error = EndBeforeStartMessage

\* the entries of a message made by sep.join(errors)
RECURSIVE SplitText(_, _, _)
SplitText(t, sep, entry) ==
    IF t = <<>> THEN <<entry>>
    ELSE IF Head(t) = sep THEN <<entry>> \o SplitText(Tail(t), sep, <<>>)
    ELSE SplitText(Tail(t), sep, Append(entry, Head(t)))

SeqRange(q) == { q[i] : i \in 1..Len(q) }

\* the error of every invalid date and of every invalid range phrase of a text
ProblemsOf(text, allow_past_start) ==
    SeqRange(DateErrors(FoundDates(FlatField(text, "dates"))))
    \cup SeqRange(RangeErrors(reference_date, FlatField(text, "ranges"), allow_past_start))

\* C19: the combined error message of extract_and_validate_dates holds one
\* entry for every invalid date found and one entry for every invalid range
\* phrase found in the text, also when both kinds occur in the same text.
C19_ScanIsExhaustive ==
    Returned("extract_and_validate_dates")
        => \A problem \in ProblemsOf(call.args.text, call.args.allow_past_start) :
              problem \in SeqRange(SplitText(call.result.error, "; ", <<>>))

\* C20: once a session has a stored artifact, every later routed message
\* finds an active contract and leaves an artifact stored, whatever its
\* outcome; only clear_contract removes the artifact, and the routed message
\* that follows a clear_contract without a contract supplied by the caller
\* finds no active contract.
C20_ArtifactLifetime ==
    [][/\ (last'.op = "get_chat_response" /\ ~IsNone(contract_memory[last'.session_id]))
            => /\ ~IsNone(last'.active)
               /\ ~IsNone(contract_memory'[last'.session_id])
       /\ \A s \in Sessions :
            (~IsNone(contract_memory[s]) /\ IsNone(contract_memory'[s]))
                => (last'.op = "clear_contract" /\ last'.session_id = s)
       /\ (/\ last.op = "clear_contract"
           /\ last'.op = "get_chat_response"
           /\ last'.session_id = last.session_id
           /\ ~SuppliesContract(last'.current_contract))
            => IsNone(last'.active)]_vars

C20_Witness ==
    /\ Routed
    /\ ~SuppliesContract(last.current_contract)
    /\ ~IsNone(last.active)
    /\ last.backend = "failed"
    /\ last.action = "unchanged"
    /\ contract_memory[last.session_id] = last.active

\* the localized literals with which the router and its operations report a
\* failure: the date alert, the fallback of a failed backend call, the
\* rejection of a generated or edited text, the no-op edit and the guidance
\* for a missing contract
FailureLiterals ==
    { "ALERT_AR_PRE", "ALERT_EN_PRE", "GEN_FAIL_AR", "GEN_FAIL_EN",
      "GEN_BAD_AR_PRE", "GEN_BAD_EN_PRE", "EDIT_FAIL_AR", "EDIT_FAIL_EN",
      "EDIT_BAD_AR_PRE", "EDIT_BAD_EN_PRE", "REVIEW_FAIL_AR", "REVIEW_FAIL_EN",
      "EXPLAIN_FAIL_AR", "EXPLAIN_FAIL_EN", "CREATE_ERR_AR", "CREATE_ERR_EN",
      "NEED_EDIT_AR", "NEED_EDIT_EN", "NOT_UPDATED_AR", "NOT_UPDATED_EN",
      "NEED_EXPLAIN_AR", "NEED_EXPLAIN_EN", "NEED_REVIEW_AR", "NEED_REVIEW_EN",
      "CHAT_FAIL_AR", "CHAT_FAIL_EN" }

\* C23: every failure message the router returns (date alert, backend failure
\* in create, edit, explain, review or chat, no-op edit, missing contract) is
\* written in the language detected for the user's input of that turn; the
\* language of a message is that of its localized literal, whatever validator
\* text is embedded after it.
C23_FailuresInInputLanguage ==
    (/\ last.op = "get_chat_response"
     /\ last.msg # <<>>
     /\ last.msg[1] \in FailureLiterals)
        => _detect_language(<<last.msg[1]>>) = _detect_language(last.user_input)

\* the request of the last call reached generate_contract or edit_contract and
\* the scan of its dates failed
RequestDatesRejected(l) ==
    /\ l.op = "get_chat_response"
    /\ \/ l.intent = "create" /\ "generate_contract" \in l.calls
       \/ l.intent = "edit" /\ "edit_contract" \in l.calls
    /\ ~DateScanOk(l.user_input)

\* C27: when the date scan of the request fails in generate_contract or
\* edit_contract, the operation returns the date alert without invoking
\* retrieval or completion, and the router answers (alert, active contract,
\* 'unchanged') or (alert, absent, 'none') and writes nothing after the
\* reconciliation step.
C27_DateFailureShortCircuits ==
    [][RequestDatesRejected(last')
        => /\ last'.calls \cap {"search", "completion"} = {}
           /\ last'.backend = "not called"
           /\ last'.msg = _validate_dates_in_text(reference_date, last'.user_input,
                                                  _detect_language(last'.user_input)).alert
           /\ \/ /\ last'.action = "unchanged"
                 /\ ~IsNone(last'.active)
                 /\ last'.contract = last'.active
              \/ /\ last'.action = "none"
                 /\ IsNone(last'.active)
                 /\ IsNone(last'.contract)
           /\ contract_memory'[last'.session_id]
                = Reconciled(contract_memory, last'.current_contract, last'.session_id)]_vars

C27_Witness ==
    /\ RequestDatesRejected(last)
    /\ last.intent = "create"
    /\ last.action = "unchanged"
    /\ last.msg = _validate_dates_in_text(reference_date, last.user_input,
                                          _detect_language(last.user_input)).alert
    /\ contract_memory[last.session_id] = last.active

\* C29: with allow_past_start = false, validate_date_range accepts a range
\* whose start is the calendar day of the reference date ("on or after
\* today"), whatever the time of day of the reference date, when the range is
\* otherwise valid.
C29_StartOnReferenceDayAccepted ==
    (/\ Returned("validate_date_range")
     /\ ~call.args.allow_past_start
     /\ ForwardRange
     /\ ToOrdinal(StartDate) = ToOrdinal(reference_date)
     /\ call.args.min_duration_days <= ToOrdinal(EndDate) - ToOrdinal(StartDate)
     /\ ToOrdinal(EndDate) - ToOrdinal(StartDate) <= call.args.max_duration_days)
        => call.result.valid

\* the number of characters of a text of single characters that are Arabic
\* letters: alphabetic and inside the block U+0600..U+06FF
RECURSIVE ArabicLetters(_)
ArabicLetters(text) ==
    IF text = <<>> THEN 0
    ELSE (IF Info(Head(text)).alpha = 1 /\ Info(Head(text)).arabic = 1 THEN 1 ELSE 0)
         + ArabicLetters(Tail(text))

\* C30: _detect_language returns 'arabic' exactly when the text holds at least
\* one alphabetic character and 10 * (Arabic letters) > 3 * (letters);
\* otherwise, and for the empty text, it returns 'english'.
C30_DetectLanguageRatio ==
    Returned("_detect_language")
        => /\ call.result \in {"arabic", "english"}
           /\ call.result = "arabic"
                <=> /\ SumOver(call.args.text, "alpha") > 0
                    /\ 10 * ArabicLetters(call.args.text)
                         > 3 * SumOver(call.args.text, "alpha")

\* C25: the branch and the result of a routed message depend only on the
\* action label of the classifier's output: an output with the same label but
\* without a confidence, with a confidence that is not a number, or without a
\* rationale gives the same result as the well-formed output.
C25_RoutingDependsOnLabelOnly ==
    (/\ Returned("get_chat_response")
     /\ ~IsNone(call.args.cls_response)
     /\ Val(call.args.cls_response).kind = "json"
     /\ Val(call.args.cls_response).action # "<missing>")
        => call.result =
             get_chat_response([s \in Sessions |-> call.args.stored], reference_date,
                               call.args.user_input, call.args.current_contract, "default",
                               JsonIntent(Val(call.args.cls_response).action, "float", "text"),
                               call.args.response)

\* C28: for every key of ARABIC_MONTHS (the two-word names and the names that
\* start with alef madda included), every valid day and every 4-digit year,
\* parse_date("<day> <name> <year>") returns the date with the month number
\* of the table, and extract_and_validate_dates finds that date in a text and
\* accepts it.
C28_ArabicMonthNamesParse ==
    /\ (Returned("parse_date") /\ call.args.layout = "arabic")
            => call.result = Some(call.args.date)
    /\ (Returned("extract_and_validate_dates") /\ call.args.text \in ArabicScanTexts)
            => /\ call.result.valid
               /\ Len(call.result.found) = 1
               /\ call.result.found[1].valid

(***************************************************************************)
(* Properties of the router under concurrent requests                      *)
(***************************************************************************)
\* C21: the requests of one session are serialized: while a call is between
\* its read of the session's memory slot and its write, no other call of the
\* same session reads or writes that slot (no stale read, no lost edit).
C21_SameSessionSerialized ==
    \A t1 \in Threads, t2 \in Threads :
        (t1 # t2 /\ threads[t1].pc = "routing" /\ threads[t2].pc = "routing")
            => threads[t1].session_id # threads[t2].session_id

\* C22: a step taken for one session (a routed message, set_current_contract
\* or clear_contract) never changes the artifact stored for another session,
\* however the requests of the sessions interleave.
C22_SessionIsolation ==
    [][\A s \in ChatSessions :
          s # last'.session_id => contract_memory'[s] = contract_memory[s]]_vars

C22_Witness ==
    /\ last.op = "get_chat_response"
    /\ last.action = "updated"
    /\ last.session_id = "chat-1"
    /\ contract_memory["chat-1"] = Some(<<"LEASE_B">>)
    /\ contract_memory["chat-2"] = Some(<<"LEASE_A">>)
    /\ \E t \in Threads : threads[t].pc = "routing" /\ threads[t].session_id = "chat-2"

C24_GetContractEqualsMemory ==
    last.op = "/api/get-contract"
        => last.contract = IF IsNone(flask_session.chat_id) THEN None
                           ELSE contract_memory[Val(flask_session.chat_id)]

====
